---- MODULE Spec2Model ----
(***************************************************************************)
(* Download task orchestrator of ytscrape (src/ytscrp.py).                 *)
(*                                                                         *)
(* One event loop (MAIN_LOOP) runs every coroutine: the request handlers,  *)
(* the background coroutine process_download_enhanced of each task, the    *)
(* websocket handlers and the send_video_progress_update coroutines that   *)
(* workers schedule with run_coroutine_threadsafe.  A coroutine keeps the  *)
(* loop until it suspends; here the only awaits that suspend are the       *)
(* websocket sends.  download_videos_realtime waits for its futures with   *)
(* the blocking future.result(), so the loop thread is held for the whole  *)
(* worker wave.  Worker threads of download_executor run                   *)
(* download_single_video; each "with storage_lock:" block is one atomic    *)
(* step, and an exception raised inside a block leaves the block (and      *)
(* releases the lock) before the handler at line 868 takes the lock again. *)
(***************************************************************************)
EXTENDS Integers, Sequences, FiniteSets, TLC

\* ---- bounds of the model ----
MaxItems == 2
NumSubs == 1
MaxProxies == 3
MaxFiles == 3
MaxCalls == 2
MaxEntries == 2

\* ---- program constants ----
MaxWorkers == 4
\* socks5_proxy_fetcher.py: an entry is accepted with upTime > 50; at most limit=200
MinUptime == 50
Limit == 200
\* ytscrp.py line 36: a sanitized name keeps at most 200 characters
NameCap == 200

\* the smallest task that has more items than download_executor has threads
WaveItems == MaxWorkers + 1

\* task identifiers (uuid4 values in the code); Spec and SpecWave follow the
\* first task alone
Tasks == {1, 2}
FirstTask == {1}
Subs == 1..(NumSubs + 1)
\* the subscribers that connect in the runs of one task
FirstSubs == 1..NumSubs
FetchMsgs == {"e1", "e2"}

VARIABLES
  tasks_storage,      \* task id -> task status dict ("absent": no entry)
  video_downloads,    \* task id -> sequence of VideoDownload records
  request,            \* task id -> the DownloadRequest of the task
  ppc,                \* task id -> position of process_download_enhanced
  video_info_list,    \* task id -> number of entries get_video_info_detailed returned (-1: not called yet)
  loop,               \* 0: MAIN_LOOP is free; t: held by task t's coroutine
  pending,            \* task id -> send_video_progress_update coroutines queued on MAIN_LOOP
  wpc,                \* task id -> per item, position of download_single_video
  exc,                \* task id -> per item, the exception in flight to line 868
  fetches,            \* task id -> per item, number of ydl.extract_info(download=True) calls
  fetch_error,        \* task id -> per item, the message the fetch provider raised ("" none)
  active_connections, \* ConnectionManager.active_connections: task id -> subscriber (0 none)
  conn,               \* subscriber -> "none" | "open" | "closed" (client side of the socket)
  sub_task,           \* subscriber -> the task id of its websocket path
  received            \* subscriber -> the last message the client received

\* SOCKS5ProxyFetcher (socks5_proxy_fetcher.py); ProxyRotator and
\* GeonodeProxyFetcher have the same fields and the same get_next_proxy
VARIABLES
  valid_proxies,      \* self.valid_proxies: the rotation list
  failed_proxies,     \* self.failed_proxies
  current_index,      \* self.current_index (0-based)
  call,               \* the last call made on the pool and its arguments
  result,             \* what the last get_next_proxy call returned or raised
  rotation            \* positions returned by the get_next_proxy calls made in a row

poolVars == <<valid_proxies, failed_proxies, current_index, call, result, rotation>>

\* the threads that call the pool
VARIABLES
  lock,               \* self.lock: 0 free, th: held by thread th
  tpc,                \* thread -> its position in the call it is making
  tlocal,             \* thread -> the call and its local variables
  seen,               \* thread -> the cursor positions its get_next_proxy call has read
  steady,             \* thread -> the pool has kept two usable endpoints during its call
  tres,               \* thread -> what its last call returned or raised
  snap                \* the pool as it was when the lock was last taken

threadVars == <<lock, tpc, tlocal, seen, steady, tres, snap>>

\* the download directory and the last duplicate lookup (ytscrp.py lines 57-101)
VARIABLES
  dir_exists,         \* os.path.exists(download_dir)
  directory,          \* the names of the files of download_dir, in the order of os.listdir
  query,              \* the arguments of the last check_existing_file call
  found               \* what that call returned; <<>> stands for None

dupVars == <<dir_exists, directory, query, found>>

\* the content identifiers computed so far (ytscrp.py lines 40-55)
VARIABLES
  id_calls            \* the latest generate_video_id_hash calls: url and returned hash

hashVars == <<id_calls>>

\* the entries of a task and the files written for them (lines 600-640, 674-702, 813-847)
VARIABLES
  entries             \* what get_video_info_detailed returned, with the file of each entry

outVars == <<entries>>

\* storage_lock and the threads that use it (ytscrp.py line 201)
VARIABLES
  storage_lock,       \* the thread that holds storage_lock; 0 when it is free
  run                 \* thread -> the handler it runs and the instruction it is at

lockVars == <<storage_lock, run>>

\* the items of one wave as progress_hook sees them (lines 705-760, 771-811)
VARIABLES
  hooked              \* item -> its VideoDownload fields that the hook reads and writes

hookVars == <<hooked>>

\* the answer of the status endpoint (lines 280-289) and a send that has not
\* returned yet (lines 146-155)
VARIABLES
  response,           \* what the latest GET /api/status/{task_id} answered
  inflight            \* task -> the socket a send_update is writing to; 0 when none

apiVars == <<response, inflight>>

extraVars == <<hookVars, apiVars>>

sideVars == <<hashVars, outVars, lockVars, extraVars>>

auxVars == <<poolVars, threadVars, dupVars, sideVars>>

orchVars == <<tasks_storage, video_downloads, request, ppc, video_info_list, loop, pending, wpc,
              exc, fetches, fetch_error, active_connections, conn, sub_task, received>>

vars == <<orchVars, auxVars>>

procVars == <<tasks_storage, video_downloads, request, ppc, video_info_list, pending>>
workVars == <<wpc, exc, fetches, fetch_error>>
subVars == <<active_connections, conn, sub_task, received>>

\* ======================= the proxy pool =======================
\* Endpoint k stands for the k-th "ip:port" string the upstream knows.
Endpoints == 1..MaxProxies

\* upTime of a listed entry: above the threshold by an amount of its own; the
\* first endpoint is at times listed at the threshold, which is rejected
UptimesOf(e) == IF e = 1 THEN {MinUptime, MinUptime + e} ELSE {MinUptime + e}

Range(s) == {s[k] : k \in DOMAIN s}

Injective(s) == \A j, k \in DOMAIN s : s[j] = s[k] => j = k

\* what the upstream API may answer: each endpoint listed at most once
ProxyLists ==
  {s \in UNION {[1..n -> Endpoints] : n \in 0..MaxProxies} : Injective(s)}

Listings ==
  UNION {{[k \in DOMAIN s |-> [proxy |-> s[k], uptime |-> u[k]]] :
            u \in {f \in [DOMAIN s -> MinUptime..(MinUptime + Cardinality(Endpoints))] :
                     \A k \in DOMAIN s : f[k] \in UptimesOf(s[k])}} :
         s \in ProxyLists}

\* the endpoints of a listing that fetch_fresh_proxies is to accept (line 66)
Candidates(data) ==
  {data[k].proxy : k \in {j \in DOMAIN data : data[j].uptime > MinUptime}}

\* offered: the acceptable endpoints of the listing a refresh was answered with
NoCall == [op |-> "none", proxy |-> 0, ok |-> TRUE, offered |-> {}]

NoResult == [kind |-> "unset", proxy |-> 0, pos |-> -1]

PoolInit ==
  /\ valid_proxies = <<>>
  /\ failed_proxies = {}
  /\ current_index = 0
  /\ call = NoCall
  /\ result = NoResult
  /\ rotation = <<>>

\* fetch_fresh_proxies, line 66: the entries that are accepted
RECURSIVE Accepted(_)
Accepted(data) ==
  IF data = <<>> THEN <<>>
  ELSE IF Head(data).uptime > MinUptime
         THEN <<Head(data)>> \o Accepted(Tail(data))
         ELSE Accepted(Tail(data))

\* x goes before the first entry whose uptime is not above its own
RECURSIVE InsertByUptime(_, _)
InsertByUptime(x, s) ==
  IF s = <<>> THEN <<x>>
  ELSE IF Head(s).uptime <= x.uptime
         THEN <<x>> \o s
         ELSE <<Head(s)>> \o InsertByUptime(x, Tail(s))

\* sorted(all_proxies, key=uptime, reverse=True), a stable sort
RECURSIVE SortByUptime(_)
SortByUptime(s) ==
  IF s = <<>> THEN <<>> ELSE InsertByUptime(Head(s), SortByUptime(Tail(s)))

\* line 86: proxy_list
ProxyList(data) ==
  LET sorted == SortByUptime(Accepted(data)) IN
  SubSeq(sorted, 1, IF Len(sorted) < Limit THEN Len(sorted) ELSE Limit)

\* the listings that are installed as they are: every entry accepted, in the
\* order of the sort
SettledListings == {data \in Listings : ProxyList(data) = data}

\* the while loop of get_next_proxy, lines 112-120, from its attempts-th round
RECURSIVE Scan(_, _, _, _)
Scan(valid, failed, index, attempts) ==
  IF attempts >= Len(valid)
    THEN [kind |-> "exhausted", proxy |-> 0, pos |-> -1, index |-> index]
    ELSE IF index >= Len(valid)
      THEN [kind |-> "IndexError", proxy |-> 0, pos |-> -1, index |-> index]
      ELSE IF valid[index + 1] \notin failed
        THEN [kind |-> "proxy", proxy |-> valid[index + 1], pos |-> index,
              index |-> (index + 1) % Len(valid)]
        ELSE Scan(valid, failed, (index + 1) % Len(valid), attempts + 1)

\* get_next_proxy as a function of the pool: what it returns and what it leaves
Rotate(valid, failed, index) ==
  IF valid = <<>>
    THEN [kind |-> "none", proxy |-> 0, pos |-> -1, index |-> index, failed |-> failed]
    ELSE LET s == Scan(valid, failed, index, 0) IN
      IF s.kind = "exhausted"
        THEN [kind |-> "proxy", proxy |-> valid[s.index + 1], pos |-> s.index,
              index |-> (s.index + 1) % Len(valid), failed |-> {}]
        ELSE [kind |-> s.kind, proxy |-> s.proxy, pos |-> s.pos, index |-> s.index,
              failed |-> failed]

\* the positions of the latest calls, at most one round of the list
Latest(s, n) == IF Len(s) <= n THEN s ELSE SubSeq(s, Len(s) - n + 1, Len(s))

\* get_next_proxy, lines 105-129
get_next_proxy ==
  LET r == Rotate(valid_proxies, failed_proxies, current_index) IN
  /\ current_index' = r.index
  /\ failed_proxies' = r.failed
  /\ result' = [kind |-> r.kind, proxy |-> r.proxy, pos |-> r.pos]
  /\ rotation' = IF r.kind = "proxy"
                   THEN Latest(Append(rotation, r.pos), Len(valid_proxies))
                   ELSE <<>>
  /\ call' = [NoCall EXCEPT !.op = "next"]
  /\ UNCHANGED <<valid_proxies, threadVars, dupVars, sideVars, orchVars>>

\* variant of mark_proxy_failed: the rotation also steps over the failed endpoint
mark_proxy_failed_advance(proxy) ==
  /\ failed_proxies' = failed_proxies \cup {proxy}
  /\ current_index' = IF valid_proxies # <<>>
                        THEN (current_index + 1) % Len(valid_proxies)
                        ELSE current_index
  /\ call' = [NoCall EXCEPT !.op = "mark", !.proxy = proxy]
  /\ rotation' = <<>>
  /\ UNCHANGED <<valid_proxies, result, threadVars, dupVars, sideVars, orchVars>>

\* mark_proxy_failed, lines 146-150
mark_proxy_failed(proxy) ==
  /\ failed_proxies' = failed_proxies \cup {proxy}
  /\ call' = [NoCall EXCEPT !.op = "mark", !.proxy = proxy]
  /\ rotation' = <<>>
  /\ UNCHANGED <<valid_proxies, current_index, result, threadVars, dupVars, sideVars, orchVars>>

\* variant of fetch_fresh_proxies: the failure marks survive a refresh
fetch_fresh_proxies_keep_failed(data, ok) ==
  /\ call' = [NoCall EXCEPT !.op = "refresh", !.ok = ok,
                           !.offered = IF ok THEN Candidates(data) ELSE {}]
  /\ rotation' = <<>>
  /\ IF ok
       THEN /\ valid_proxies' = [k \in DOMAIN ProxyList(data) |-> ProxyList(data)[k].proxy]
            /\ UNCHANGED failed_proxies
       ELSE UNCHANGED <<valid_proxies, failed_proxies>>
  /\ UNCHANGED <<current_index, result, threadVars, dupVars, sideVars, orchVars>>

\* fetch_fresh_proxies, lines 33-103: the upstream answers data, or a request
\* raises (not ok) and the handlers of lines 98-103 return
fetch_fresh_proxies(data, ok) ==
  /\ call' = [NoCall EXCEPT !.op = "refresh", !.ok = ok,
                           !.offered = IF ok THEN Candidates(data) ELSE {}]
  /\ rotation' = <<>>
  /\ IF ok
       THEN /\ valid_proxies' = [k \in DOMAIN ProxyList(data) |-> ProxyList(data)[k].proxy]
            /\ failed_proxies' = {}
       ELSE UNCHANGED <<valid_proxies, failed_proxies>>
  /\ UNCHANGED <<current_index, result, threadVars, dupVars, sideVars, orchVars>>

NextPool ==
  \/ get_next_proxy
  \/ \E e \in Endpoints : mark_proxy_failed(e)
  \/ \E data \in Listings : fetch_fresh_proxies(data, TRUE)
  \/ fetch_fresh_proxies(<<>>, FALSE)

\* ---- the pool called from several threads ----
\* Two threads call get_next_proxy, mark_proxy_failed and get_stats; the thread of
\* start_background_refresh calls fetch_fresh_proxies.  A step is what a thread
\* does between two points where another thread may run: taking self.lock, one
\* statement group inside the "with self.lock:" block, leaving the block.
Callers == {1, 2}
Refresher == 3
\* the caller that also reports failures and reads the statistics
Reporter == 1
Threads == Callers \cup {Refresher}

\* others: the calls of other threads that took the lock while this call was in
\* progress (counted up to two)
NoLocal == [op |-> "none", arg |-> 0, attempts |-> 0, proxy |-> 0, pos |-> -1, others |-> 0]

Overlapped(th) ==
  [u \in Threads |->
     IF u # th /\ tpc[u] # "idle" /\ tlocal[u].others < 2
       THEN [tlocal[u] EXCEPT !.others = @ + 1]
       ELSE tlocal[u]]

NoSnap == [valid |-> <<>>, failed |-> {}, index |-> 0]

\* endpoints of the rotation list that are not marked failed
FreeCount(valid, failed) == Cardinality({k \in DOMAIN valid : valid[k] \notin failed})

ThreadInit ==
  /\ lock = 0
  /\ tpc = [th \in Threads |-> "idle"]
  /\ tlocal = [th \in Threads |-> NoLocal]
  /\ seen = [th \in Threads |-> {}]
  /\ steady = [th \in Threads |-> FALSE]
  /\ tres = [th \in Threads |-> NoResult]
  /\ snap = NoSnap

\* the calls in progress stay "on a pool with two usable endpoints" only while
\* the pool keeps two endpoints that are not failed
StillSteady(valid, failed) ==
  steady' = [th \in Threads |-> steady[th] /\ FreeCount(valid, failed) >= 2]

\* a thread enters get_next_proxy, mark_proxy_failed(e) or get_stats
invoke(th, op, e) ==
  /\ th \in Callers
  /\ tpc[th] = "idle"
  /\ op \in {"next", "mark", "stats"}
  /\ tpc' = [tpc EXCEPT ![th] = "lock"]
  /\ tlocal' = [tlocal EXCEPT ![th] = [NoLocal EXCEPT !.op = op, !.arg = e]]
  /\ steady' = [steady EXCEPT ![th] =
                   op = "next" /\ FreeCount(valid_proxies, failed_proxies) >= 2]
  /\ UNCHANGED <<lock, seen, tres, snap, poolVars, dupVars, sideVars, orchVars>>

\* refresh_worker, lines 163-167: the requests of lines 39-86 are made before the
\* lock is taken; a request that raises ends the call with the pool untouched
refresh_worker ==
  /\ tpc[Refresher] = "idle"
  /\ tpc' = [tpc EXCEPT ![Refresher] = "lock"]
  /\ tlocal' = [tlocal EXCEPT ![Refresher] = [NoLocal EXCEPT !.op = "refresh"]]
  /\ UNCHANGED <<lock, seen, steady, tres, snap, poolVars, dupVars, sideVars, orchVars>>

\* "with self.lock:" is entered
acquire(th) ==
  /\ tpc[th] = "lock"
  /\ lock = 0
  /\ lock' = th
  /\ snap' = [valid |-> valid_proxies, failed |-> failed_proxies, index |-> current_index]
  /\ tpc' = [tpc EXCEPT ![th] = tlocal[th].op]
  /\ tlocal' = Overlapped(th)
  /\ UNCHANGED <<seen, steady, tres, poolVars, dupVars, sideVars, orchVars>>

\* the block is left with the call's result r
Leave(th, r) ==
  /\ tres' = [tres EXCEPT ![th] = r]
  /\ lock' = 0
  /\ snap' = NoSnap
  /\ tpc' = [tpc EXCEPT ![th] = "return"]

\* the block is left by a call that returns nothing
LeaveDone(th) ==
  /\ lock' = 0
  /\ snap' = NoSnap
  /\ tpc' = [tpc EXCEPT ![th] = "idle"]
  /\ tlocal' = [tlocal EXCEPT ![th] = NoLocal]

\* get_next_proxy, lines 108-114 and 122-127: the tests of one round and the read
\* of valid_proxies[current_index]
next_round(th) ==
  /\ tpc[th] = "next"
  /\ IF valid_proxies = <<>>
       THEN /\ Leave(th, [kind |-> "none", proxy |-> 0, pos |-> -1])
            /\ UNCHANGED <<tlocal, seen, steady, failed_proxies, current_index>>
       ELSE IF current_index >= Len(valid_proxies)
         THEN /\ Leave(th, [kind |-> "IndexError", proxy |-> 0, pos |-> -1])
              /\ seen' = [seen EXCEPT ![th] = @ \cup {current_index}]
              /\ UNCHANGED <<tlocal, steady, failed_proxies, current_index>>
         ELSE IF tlocal[th].attempts >= Len(valid_proxies)
           THEN /\ failed_proxies' = {}
                /\ current_index' = (current_index + 1) % Len(valid_proxies)
                /\ Leave(th, [kind |-> "proxy", proxy |-> valid_proxies[current_index + 1],
                              pos |-> current_index])
                /\ seen' = [seen EXCEPT ![th] = @ \cup {current_index}]
                /\ StillSteady(valid_proxies, {})
                /\ UNCHANGED tlocal
           ELSE /\ tlocal' = [tlocal EXCEPT ![th].proxy = valid_proxies[current_index + 1],
                                             ![th].pos = current_index]
                /\ seen' = [seen EXCEPT ![th] = @ \cup {current_index}]
                /\ tpc' = [tpc EXCEPT ![th] = "advance"]
                /\ UNCHANGED <<lock, tres, snap, steady, failed_proxies, current_index>>
  /\ UNCHANGED <<valid_proxies, call, result, rotation, dupVars, sideVars, orchVars>>

\* get_next_proxy, lines 115-120: the cursor moves on, the endpoint is tested
next_advance(th) ==
  /\ tpc[th] = "advance"
  /\ valid_proxies # <<>>
  /\ current_index' = (current_index + 1) % Len(valid_proxies)
  /\ IF tlocal[th].proxy \notin failed_proxies
       THEN /\ Leave(th, [kind |-> "proxy", proxy |-> tlocal[th].proxy,
                          pos |-> tlocal[th].pos])
            /\ UNCHANGED tlocal
       ELSE /\ tlocal' = [tlocal EXCEPT ![th].attempts = @ + 1]
            /\ tpc' = [tpc EXCEPT ![th] = "next"]
            /\ UNCHANGED <<lock, tres, snap>>
  /\ UNCHANGED <<seen, steady, valid_proxies, failed_proxies, call, result, rotation,
                 dupVars, sideVars, orchVars>>

\* the call has left the block and returns to its caller
call_return(th) ==
  /\ tpc[th] = "return"
  /\ tpc' = [tpc EXCEPT ![th] = "idle"]
  /\ tlocal' = [tlocal EXCEPT ![th] = NoLocal]
  /\ seen' = [seen EXCEPT ![th] = {}]
  /\ steady' = [steady EXCEPT ![th] = FALSE]
  /\ tres' = [tres EXCEPT ![th] = NoResult]
  /\ UNCHANGED <<lock, snap, poolVars, dupVars, sideVars, orchVars>>

\* mark_proxy_failed, lines 148-149
mark_add(th) ==
  /\ tpc[th] = "mark"
  /\ failed_proxies' = failed_proxies \cup {tlocal[th].arg}
  /\ LeaveDone(th)
  /\ StillSteady(valid_proxies, failed_proxies \cup {tlocal[th].arg})
  /\ UNCHANGED <<seen, tres, valid_proxies, current_index, call, result, rotation, dupVars, sideVars, orchVars>>

\* get_stats, lines 198-200: total_proxies and current_index as read
stats_read(th) ==
  /\ tpc[th] = "stats"
  /\ Leave(th, [kind |-> "stats", proxy |-> Len(valid_proxies), pos |-> current_index])
  /\ UNCHANGED <<tlocal, seen, steady, poolVars, dupVars, sideVars, orchVars>>

\* fetch_fresh_proxies, lines 89-92, with the listing the requests returned
refresh_set(data) ==
  /\ tpc[Refresher] = "refresh"
  /\ valid_proxies' = [k \in DOMAIN ProxyList(data) |-> ProxyList(data)[k].proxy]
  /\ failed_proxies' = {}
  /\ LeaveDone(Refresher)
  \* a call in progress is no longer a call on one pool
  /\ steady' = [th \in Threads |-> FALSE]
  /\ UNCHANGED <<seen, tres, current_index, call, result, rotation, dupVars, sideVars, orchVars>>

NextThreads ==
  \/ \E th \in Callers : invoke(th, "next", 0)
  \/ \E e \in Endpoints : invoke(Reporter, "mark", e)
  \/ invoke(Reporter, "stats", 0)
  \/ refresh_worker
  \/ \E th \in Threads : acquire(th)
  \/ \E th \in Callers : next_round(th)
  \/ \E th \in Callers : next_advance(th)
  \/ \E th \in Callers : call_return(th)
  \/ \E th \in Callers : mark_add(th)
  \/ \E th \in Callers : stats_read(th)
  \/ \E data \in SettledListings : refresh_set(data)

\* ======================= the duplicate lookup =======================
\* src/ytscrp.py, sanitize_filename (lines 30-38) and check_existing_file
\* (lines 57-101).  A name is a sequence of blocks, each standing for the
\* characters it spells: words, the separators " ", "_" and "-", identifiers, and
\* dotted blocks such as ".mp4".  Only a dotted block holds a dot, and it holds it
\* in front; no word holds an identifier.
VideoId == "abc123def456"
NoId == "unknown-id"
Ids == {VideoId, NoId}

SongTitle == <<"Song", " ", "Title">>
PaddedSongTitle == <<" ", "Song", "\\t", " ", "Title", " ">>
RandomVideo == <<"Some", " ", "Random", " ", "Video">>
RandomVid == <<"Some", " ", "Random", " ", "Vid">>
Unrelated == <<"Completely", " ", "Unrelated">>
AskedTitle == <<"Title", "?">>
\* 198 characters, a space, one character, and six more
LongTitle == <<"w198", " ", "x", " ", "Video">>
\* ten words, and a title of blanks only
TenWords ==
  <<"alpha", " ", "bravo", " ", "delta", " ", "gamma", " ", "kappa", " ",
    "sigma", " ", "omega", " ", "theta", " ", "tango", " ", "romeo">>
BlankTitle == <<" ", " ">>
Titles ==
  {SongTitle, PaddedSongTitle, RandomVideo, RandomVid, Unrelated, AskedTitle, LongTitle,
   TenWords, BlankTitle}

SongMp3 == SongTitle \o <<"_", VideoId, ".mp3">>
SongFormatMp4 == SongTitle \o <<"_", VideoId, ".f", "137", ".mp4">>
RenamedWebm == <<"renamed", "-", VideoId, ".webm">>
RandomWebm == RandomVideo \o <<".webm">>
LowerRandomMov == <<"some", " ", "random", " ", "video", ".mov">>
SongTxt == SongTitle \o <<".txt">>
\* the first seven words of TenWords
SevenMp4 == SubSeq(TenWords, 1, 13) \o <<".mp4">>
Files == {SongMp3, SongFormatMp4, RenamedWebm, RandomWebm, LowerRandomMov, SongTxt, SevenMp4}

\* the number of characters of a block
Chars(b) == IF b = "w198" THEN 198 ELSE IF b \in {" ", "_", "-", "?", "x", "\\t"} THEN 1 ELSE 5

\* line 33: the characters <>:"/\|?* become "_"
Illegal == {"<", ">", ":", "\"", "/", "\\", "|", "?", "*"}
\* line 34: control characters are removed
Control == {"\\t"}
\* str.strip() and str.split() take these away
Whitespace == {" "}

\* str.lower() of a block
Lower(b) ==
  CASE b = "Song" -> "song" [] b = "Title" -> "title" [] b = "Some" -> "some"
    [] b = "Random" -> "random" [] b = "Video" -> "video" [] b = "Vid" -> "vid"
    [] b = "Completely" -> "completely" [] b = "Unrelated" -> "unrelated"
    [] OTHER -> b

RECURSIVE Replaced(_)
Replaced(s) ==
  IF s = <<>> THEN <<>>
  ELSE <<IF Head(s) \in Illegal THEN "_" ELSE Head(s)>> \o Replaced(Tail(s))

RECURSIVE Printable(_)
Printable(s) ==
  IF s = <<>> THEN <<>>
  ELSE IF Head(s) \in Control THEN Printable(Tail(s))
  ELSE <<Head(s)>> \o Printable(Tail(s))

\* filename[:200]; the titles drawn here are cut between two blocks
RECURSIVE Truncated(_, _)
Truncated(s, room) ==
  IF s = <<>> \/ Chars(Head(s)) > room THEN <<>>
  ELSE <<Head(s)>> \o Truncated(Tail(s), room - Chars(Head(s)))

RECURSIVE LStrip(_)
LStrip(s) == IF s # <<>> /\ Head(s) \in Whitespace THEN LStrip(Tail(s)) ELSE s

RECURSIVE RStrip(_)
RStrip(s) ==
  IF s # <<>> /\ s[Len(s)] \in Whitespace THEN RStrip(SubSeq(s, 1, Len(s) - 1)) ELSE s

sanitize_filename(filename) ==
  RStrip(LStrip(Truncated(Printable(Replaced(filename)), NameCap)))

\* variant of possible_extensions: one list for both media types
any_extensions(audio_only) ==
  <<".mp4", ".webm", ".mkv", ".avi", ".mov", ".mp3", ".m4a", ".ogg">>

\* line 66, in the order of the lists
possible_extensions(audio_only) ==
  IF ~audio_only THEN <<".mp4", ".webm", ".mkv", ".avi", ".mov">>
  ELSE <<".mp3", ".m4a", ".webm", ".ogg">>

\* lines 70-74; "*" stands for any run of characters
patterns(sanitized_title, video_id_hash, ext) ==
  << sanitized_title \o <<"_", video_id_hash, ext>>,
     sanitized_title \o <<"_", video_id_hash, ".f", "*", ext>>,
     <<"*", video_id_hash, "*", ext>> >>

\* fnmatch of a name against a pattern
RECURSIVE fnmatch(_, _)
fnmatch(name, pattern) ==
  IF pattern = <<>> THEN name = <<>>
  ELSE IF Head(pattern) = "*"
    THEN \/ fnmatch(name, Tail(pattern))
         \/ name # <<>> /\ fnmatch(Tail(name), pattern)
  ELSE name # <<>> /\ Head(name) = Head(pattern) /\ fnmatch(Tail(name), Tail(pattern))

\* glob.glob: the names of the directory that match, in the order of the
\* directory; a pattern that begins with a wildcard matches no name that begins
\* with a dot
glob(listing, pattern) ==
  SelectSeq(listing,
            LAMBDA name : /\ fnmatch(name, pattern)
                          /\ ~(Head(pattern) = "*" /\ name # <<>> /\ Head(name) = "."))

Dotted(b) == b \in {".mp4", ".webm", ".mkv", ".avi", ".mov", ".mp3", ".m4a", ".ogg", ".txt", ".f", "."}

\* os.path.splitext: the name is cut at its last dot, unless nothing but dots
\* comes before it
LastDot(name) ==
  LET dots == {i \in DOMAIN name : Dotted(name[i]) /\ \E j \in 1..(i - 1) : name[j] # "."}
  IN IF dots = {} THEN Len(name) + 1 ELSE CHOOSE i \in dots : \A j \in dots : j <= i

splitext(name) ==
  [root |-> SubSeq(name, 1, LastDot(name) - 1), ext |-> SubSeq(name, LastDot(name), Len(name))]

\* set(s.lower().split()): the words between the blanks, in lower case
RECURSIVE Split(_, _)
Split(s, word) ==
  IF s = <<>> THEN (IF word = <<>> THEN {} ELSE {word})
  ELSE IF Head(s) \in Whitespace
    THEN (IF word = <<>> THEN {} ELSE {word}) \cup Split(Tail(s), <<>>)
  ELSE Split(Tail(s), Append(word, Lower(Head(s))))

Words(s) == Split(s, <<>>)

\* variant of Similar: a similarity of 0.7 is enough
Similar_atleast(title_words, existing_words) ==
  /\ Cardinality(title_words) > 0
  /\ 10 * Cardinality(title_words \cap existing_words)
        >= 7 * Cardinality(title_words \cup existing_words)

\* variant of Similar: half of the words in common are enough
Similar_half(title_words, existing_words) ==
  /\ Cardinality(title_words) > 0
  /\ 2 * Cardinality(title_words \cap existing_words)
        >= Cardinality(title_words \cup existing_words)

\* lines 95-98: the similarity of the two word sets is above 0.7
Similar(title_words, existing_words) ==
  /\ Cardinality(title_words) > 0
  /\ 10 * Cardinality(title_words \cap existing_words)
        > 7 * Cardinality(title_words \cup existing_words)

NoFile == <<>>

\* lines 69-79: the first extension and pattern that match anything decide
IdMatch(listing, sanitized_title, video_id_hash, exts) ==
  LET hit(k) == glob(listing,
                     patterns(sanitized_title, video_id_hash, exts[((k - 1) \div 3) + 1])
                        [((k - 1) % 3) + 1])
      hits == {k \in 1..(3 * Len(exts)) : hit(k) # <<>>}
  IN IF hits = {} THEN NoFile
     ELSE Head(hit(CHOOSE k \in hits : \A j \in hits : k <= j))

\* lines 82-99: the first name of os.listdir with an expected extension and
\* similar words
TitleMatch(listing, sanitized_title, exts) ==
  LET near == SelectSeq(listing,
                LAMBDA name : /\ \E k \in DOMAIN exts : splitext(name).ext = <<exts[k]>>
                              /\ Similar(Words(sanitized_title), Words(splitext(name).root)))
  IN IF near = <<>> THEN NoFile ELSE Head(near)

Lookup(exists, listing, title, video_id_hash, audio_only) ==
  LET sanitized_title == sanitize_filename(title)
      exts == possible_extensions(audio_only)
      by_id == IdMatch(listing, sanitized_title, video_id_hash, exts)
  IN IF ~exists THEN NoFile
     ELSE IF by_id # NoFile THEN by_id
     ELSE TitleMatch(listing, sanitized_title, exts)

NoQuery == [title |-> <<>>, video_id_hash |-> "", audio_only |-> FALSE, asked |-> FALSE]

DupInit ==
  /\ dir_exists = FALSE
  /\ directory = <<>>
  /\ query = NoQuery
  /\ found = NoFile

\* os.makedirs(download_dir, exist_ok=True)
makedirs ==
  /\ ~dir_exists
  /\ dir_exists' = TRUE
  /\ UNCHANGED <<directory, query, found, poolVars, threadVars, sideVars, orchVars>>

\* a file appears in the directory; its place in the listing is the file system's
write_file(name, at) ==
  /\ dir_exists
  /\ Len(directory) < MaxFiles
  /\ \A i \in DOMAIN directory : directory[i] # name
  /\ at \in 0..Len(directory)
  /\ directory' = SubSeq(directory, 1, at) \o <<name>> \o SubSeq(directory, at + 1, Len(directory))
  /\ UNCHANGED <<dir_exists, query, found, poolVars, threadVars, sideVars, orchVars>>

\* line 778: one lookup at a time is followed from its call to the use of its result
check_existing_file(title, video_id_hash, audio_only) ==
  /\ ~query.asked
  /\ query' = [title |-> title, video_id_hash |-> video_id_hash,
               audio_only |-> audio_only, asked |-> TRUE]
  /\ found' = Lookup(dir_exists, directory, title, video_id_hash, audio_only)
  /\ UNCHANGED <<dir_exists, directory, poolVars, threadVars, sideVars, orchVars>>

\* lines 780-800: the caller has taken the result
use_existing_file ==
  /\ query.asked
  /\ query' = NoQuery
  /\ found' = NoFile
  /\ UNCHANGED <<dir_exists, directory, poolVars, threadVars, sideVars, orchVars>>

NextDup ==
  \/ makedirs
  \/ use_existing_file
  \/ \E name \in Files, at \in 0..MaxFiles : write_file(name, at)
  \/ \E title \in Titles, id \in Ids, audio_only \in BOOLEAN :
        check_existing_file(title, id, audio_only)

\* ======================= the content identifier =======================
\* A url is a sequence of pieces; the substrings generate_video_id_hash looks for
\* are sequences of pieces as well.
Rick == "dQw4w9WgXcQ"
Demo == "fJ9rUzIMcZQ"
VideoIds == {Rick, Demo}

WatchUrl(id) == <<"https://", "www.", "youtube.com", "/", "watch", "?", "v=", id>>
WatchExtraUrl(id) == WatchUrl(id) \o <<"&", "t=10s">>
ShortUrl(id) == <<"https://", "youtu.be", "/", id>>
ShortExtraUrl(id) == ShortUrl(id) \o <<"?", "t=10s">>
OtherWatchUrl(id) == <<"https://", "example.com", "/", "watch", "?", "v=", id>>
VideoPathUrl(id) == <<"https://", "example.com", "/", "video", "/", id, "/", "play">>
EmptyShortUrl == <<"https://", "youtu.be", "/">>
ClipUrl == <<"https://", "example.com", "/", "clip">>

UrlList ==
  <<WatchUrl(Rick), WatchExtraUrl(Rick), ShortUrl(Rick), ShortExtraUrl(Rick),
    OtherWatchUrl(Rick), VideoPathUrl(Rick),
    WatchUrl(Demo), WatchExtraUrl(Demo), ShortUrl(Demo), ShortExtraUrl(Demo),
    OtherWatchUrl(Demo), VideoPathUrl(Demo), EmptyShortUrl, ClipUrl>>

Urls == {UrlList[k] : k \in DOMAIN UrlList}

\* pat occurs in s at position k
StartsAt(s, k, pat) ==
  /\ k + Len(pat) - 1 <= Len(s)
  /\ \A j \in 1..Len(pat) : s[k + j - 1] = pat[j]

\* str.find: the first position of pat in s, 0 when there is none
Find(s, pat) ==
  LET hits == {k \in 1..Len(s) : StartsAt(s, k, pat)}
  IN IF hits = {} THEN 0 ELSE CHOOSE k \in hits : \A j \in hits : k <= j

\* "pat in s"
Contains(s, pat) == Find(s, pat) # 0

\* str.split(sep)
RECURSIVE split(_, _)
split(s, sep) ==
  LET k == Find(s, sep)
  IN IF k = 0 THEN <<s>>
     ELSE <<SubSeq(s, 1, k - 1)>> \o split(SubSeq(s, k + Len(sep), Len(s)), sep)

\* what is hashed in the runs: the video ids and the whole urls
Hashable == <<<<Rick>>, <<Demo>>>> \o UrlList

\* hashlib.md5(...).hexdigest()[:12]: one digest for each content
Digests ==
  <<"md5-01", "md5-02", "md5-03", "md5-04", "md5-05", "md5-06", "md5-07", "md5-08",
    "md5-09", "md5-10", "md5-11", "md5-12", "md5-13", "md5-14", "md5-15", "md5-16">>

md5(content) == Digests[CHOOSE k \in DOMAIN Hashable : Hashable[k] = content]

\* variant of generate_video_id_hash: the url is hashed as a whole
generate_video_id_hash_url(url) == md5(url)

\* lines 40-55
generate_video_id_hash(url) ==
  LET video_id ==
        IF Contains(url, <<"youtube.com", "/", "watch", "?", "v=">>)
          THEN split(split(url, <<"watch", "?", "v=">>)[2], <<"&">>)[1]
        ELSE IF Contains(url, <<"youtu.be", "/">>)
          THEN split(split(url, <<"youtu.be", "/">>)[2], <<"?">>)[1]
        ELSE IF Contains(url, <<"/", "video", "/">>)
          THEN split(split(url, <<"/", "video", "/">>)[2], <<"/">>)[1]
        ELSE <<>>
  IN IF video_id # <<>> THEN md5(video_id) ELSE md5(url)

HashInit == id_calls = <<>>

\* one call of generate_video_id_hash (lines 627, 637); the last MaxCalls calls are kept
hash_url(url) ==
  /\ id_calls' = Latest(Append(id_calls,
        [url |-> url, video_id_hash |-> generate_video_id_hash(url)]), MaxCalls)
  /\ UNCHANGED <<outVars, lockVars, extraVars, poolVars, threadVars, dupVars, orchVars>>

NextHash == \E url \in Urls : hash_url(url)

\* ======================= the output files =======================
\* the forms under which a playlist lists its videos
EntryUrls == UNION {{WatchUrl(id), WatchExtraUrl(id), ShortUrl(id)} : id \in VideoIds}

EntryTitles == {SongTitle, RandomVideo}

\* yt-dlp's %(id)s for a video of EntryUrls
info_id(url) ==
  CHOOSE id \in VideoIds : url \in {WatchUrl(id), WatchExtraUrl(id), ShortUrl(id)}

\* 'restrictfilenames': True, line 666: no spaces in the name
RECURSIVE Restricted(_)
Restricted(title) ==
  IF title = <<>> THEN <<>>
  ELSE <<IF Head(title) \in Whitespace THEN "_" ELSE Head(title)>> \o Restricted(Tail(title))

\* 'outtmpl', lines 681 and 701: %(title)s_%(id)s.%(ext)s
outtmpl(title, id, ext) == Restricted(title) \o <<"_", id, ext>>

OutInit == entries = <<>>

\* get_video_info_detailed, lines 624-632: one entry of the list
get_video_info_detailed(url, title) ==
  /\ Len(entries) < MaxEntries
  /\ entries' = Append(entries,
        [url |-> url, title |-> title,
         video_id_hash |-> generate_video_id_hash(url), filename |-> NoFile])
  /\ UNCHANGED <<hashVars, lockVars, extraVars, poolVars, threadVars, dupVars, orchVars>>

\* ydl.extract_info(url, download=True), lines 813-847: the file is written under
\* outtmpl unless it is there ('no_overwrites'), and its name becomes the filename
extract_info(k, ext) ==
  LET name == outtmpl(entries[k].title, info_id(entries[k].url), ext) IN
  /\ k \in DOMAIN entries
  /\ entries[k].filename = NoFile
  /\ dir_exists
  /\ \/ \E i \in DOMAIN directory : directory[i] = name
     \/ Len(directory) < MaxFiles
  /\ directory' = IF \E i \in DOMAIN directory : directory[i] = name
                    THEN directory ELSE Append(directory, name)
  /\ entries' = [entries EXCEPT ![k].filename = name]
  /\ UNCHANGED <<dir_exists, query, found, hashVars, lockVars, extraVars, poolVars, threadVars, orchVars>>

NextOutput ==
  \/ makedirs
  \/ use_existing_file
  \/ \E url \in EntryUrls, title \in EntryTitles : get_video_info_detailed(url, title)
  \/ \E k \in 1..MaxEntries, ext \in {".mp4", ".webm"} : extract_info(k, ext)
  \/ \E k \in DOMAIN entries :
        check_existing_file(entries[k].title, entries[k].video_id_hash, FALSE)

\* ======================= storage_lock =======================
\* The handlers as the sequence of what they do to storage_lock, to tasks_storage
\* and video_downloads ("touch"), and to the file system or the network ("io"),
\* each with the line where it starts.
LoopThread == 1
WorkerThread == 2
LockThreads == {LoopThread, WorkerThread}

I(op, line) == [op |-> op, line |-> line]

Program(h) ==
  CASE h = "get_status" ->
         <<I("acquire", 283), I("touch", 284), I("release", 288)>>
    [] h = "get_progress" ->
         <<I("touch", 397), I("acquire", 401), I("touch", 402), I("release", 403)>>
    [] h = "websocket_endpoint" ->
         <<I("touch", 235), I("touch", 152), I("io", 152)>>
    [] h = "heartbeat" ->
         <<I("touch", 241), I("touch", 152), I("io", 152)>>
    [] h = "send_video_progress_update" ->
         <<I("acquire", 893), I("touch", 894), I("release", 920), I("touch", 152)>>
    [] h = "update_task_status_realtime" ->
         <<I("acquire", 926), I("touch", 927), I("release", 937), I("touch", 152),
           I("io", 152)>>
    [] h = "download_zip" ->
         <<I("io", 349), I("acquire", 351), I("touch", 352), I("acquire", 116),
           I("touch", 117), I("release", 117), I("touch", 120), I("io", 122),
           I("release", 355), I("io", 357)>>
    [] h = "create_task_zip_file" ->
         <<I("acquire", 116), I("touch", 117), I("release", 117), I("touch", 120),
           I("io", 122)>>
    [] h = "skip" ->
         <<I("acquire", 770), I("touch", 771), I("release", 773), I("io", 778),
           I("acquire", 780), I("touch", 781), I("io", 784), I("touch", 785),
           I("release", 791)>>
    [] h = "download" ->
         <<I("acquire", 770), I("touch", 771), I("release", 773), I("acquire", 796),
           I("touch", 797), I("release", 805), I("io", 813), I("acquire", 843),
           I("touch", 845), I("io", 849), I("touch", 851), I("release", 856)>>
    [] h = "progress_hook" ->
         <<I("acquire", 709), I("touch", 710), I("release", 710), I("touch", 716),
           I("acquire", 735), I("touch", 736), I("release", 755)>>
    [] h = "except" ->
         <<I("acquire", 869), I("touch", 870), I("release", 874)>>
    [] OTHER -> <<>>

\* the coroutines of the event loop and the functions of a pool thread
HandlersOf(th) ==
  IF th = LoopThread
    THEN {"get_status", "get_progress", "websocket_endpoint", "heartbeat",
          "send_video_progress_update", "update_task_status_realtime", "download_zip",
          "create_task_zip_file"}
    ELSE {"skip", "download", "progress_hook"}

Idle == [handler |-> "idle", pc |-> 1]

\* the instruction a thread is about to execute
Instr(th) ==
  IF run[th].pc \in DOMAIN Program(run[th].handler)
    THEN Program(run[th].handler)[run[th].pc] ELSE I("none", 0)

Advance(th) == run' = [run EXCEPT ![th].pc = @ + 1]

LockInit ==
  /\ storage_lock = 0
  /\ run = [th \in LockThreads |-> Idle]

\* a request arrives, a coroutine is resumed, a pool thread takes a function
enter(th, h) ==
  /\ run[th] = Idle
  /\ h \in HandlersOf(th)
  /\ run' = [run EXCEPT ![th] = [handler |-> h, pc |-> 1]]
  /\ UNCHANGED <<storage_lock, hashVars, outVars, extraVars, poolVars, threadVars, dupVars, orchVars>>

\* "with storage_lock:": threading.Lock is not reentrant
lock_acquire(th) ==
  /\ Instr(th).op = "acquire"
  /\ storage_lock = 0
  /\ storage_lock' = th
  /\ Advance(th)
  /\ UNCHANGED <<hashVars, outVars, extraVars, poolVars, threadVars, dupVars, orchVars>>

\* the end of the with block
lock_release(th) ==
  /\ Instr(th).op = "release"
  /\ storage_lock' = 0
  /\ Advance(th)
  /\ UNCHANGED <<hashVars, outVars, extraVars, poolVars, threadVars, dupVars, orchVars>>

\* a read or a write of tasks_storage, video_downloads or one of their records
touch(th) ==
  /\ Instr(th).op = "touch"
  /\ Advance(th)
  /\ UNCHANGED <<storage_lock, hashVars, outVars, extraVars, poolVars, threadVars, dupVars, orchVars>>

\* a call to the file system or the network; one that raises in
\* download_single_video leaves the with block and goes to the handler of line 868
os_call(th, ok) ==
  /\ Instr(th).op = "io"
  /\ ok \/ run[th].handler \in {"skip", "download"}
  /\ IF ok
       THEN Advance(th) /\ UNCHANGED storage_lock
       ELSE /\ run' = [run EXCEPT ![th] = [handler |-> "except", pc |-> 1]]
            /\ storage_lock' = IF storage_lock = th THEN 0 ELSE storage_lock
  /\ UNCHANGED <<hashVars, outVars, extraVars, poolVars, threadVars, dupVars, orchVars>>

\* the handler returns
leave(th) ==
  /\ run[th].handler # "idle"
  /\ Instr(th).op = "none"
  /\ run' = [run EXCEPT ![th] = Idle]
  /\ UNCHANGED <<storage_lock, hashVars, outVars, extraVars, poolVars, threadVars, dupVars, orchVars>>

NextLock ==
  \/ \E th \in LockThreads : \E h \in HandlersOf(th) : enter(th, h)
  \/ \E th \in LockThreads : lock_acquire(th)
  \/ \E th \in LockThreads : lock_release(th)
  \/ \E th \in LockThreads : touch(th)
  \/ \E th \in LockThreads, ok \in BOOLEAN : os_call(th, ok)
  \/ \E th \in LockThreads : leave(th)

\* ======================= the progress hook =======================
\* src/ytscrp.py, progress_hook (lines 705-760) and the steps of
\* download_single_video that write the fields it reads (lines 771-811, 842-853).
\* One closure serves every item of the wave: yt-dlp hands it the dictionary d of
\* the fetch that raised the callback, and the hook looks for the item itself.
HookItems == {1, 2}

\* the url of an item of the wave; every item has the title SongTitle
HookUrl(i) == IF i = 1 THEN WatchUrl(Rick) ELSE WatchUrl(Demo)

\* byte counts that yt-dlp reports; 0 also stands for a key that is missing or None
Bytes == {0, 50, 100}

Callbacks ==
  [status : {"downloading", "finished"},
   downloaded_bytes : Bytes, downloaded_bytes_estimate : Bytes,
   total_bytes : Bytes, total_bytes_estimate : Bytes]

\* lines 181-195: the defaults of the dataclass; progress is a percentage
HookedDownload ==
  [status |-> "pending", progress |-> 0, downloaded_size |-> 0, file_size |-> 0,
   filename |-> <<>>, video_id_hash |-> ""]

\* d['filename']: the name yt-dlp writes the fetch of item i to
hook_filename(i) == outtmpl(SongTitle, info_id(HookUrl(i)), ".mp4")

\* lines 560-567: the items are built with the hash of their entry
HookInit ==
  hooked = [i \in HookItems |->
              [HookedDownload EXCEPT !.video_id_hash = generate_video_id_hash(HookUrl(i))]]

HookFrame ==
  UNCHANGED <<apiVars, hashVars, outVars, lockVars, poolVars, threadVars, dupVars, orchVars>>

\* lines 771-775
hook_checking(i) ==
  /\ hooked[i].status = "pending"
  /\ hooked' = [hooked EXCEPT ![i].status = "checking",
                              ![i].video_id_hash = generate_video_id_hash(HookUrl(i))]
  /\ HookFrame

\* lines 799-809: progress and filename are reset, the byte counts are not
hook_downloading(i) ==
  /\ hooked[i].status = "checking"
  /\ hooked' = [hooked EXCEPT ![i].status = "downloading", ![i].progress = 0,
                              ![i].filename = <<>>]
  /\ HookFrame

\* lines 711-731: the index the hook settles on for a callback of the fetch of
\* item i; 0 stands for None
attribute(i, base) ==
  LET named == {j \in HookItems :
                  \/ hooked[j].filename # <<>> /\ base = hooked[j].filename
                  \/ hooked[j].video_id_hash # ""
                       /\ Contains(base, <<hooked[j].video_id_hash>>)}
      downloading == {j \in HookItems : hooked[j].status = "downloading"}
  IN IF named # {} THEN CHOOSE j \in named : \A k \in named : j <= k
     ELSE IF downloading # {} THEN CHOOSE j \in downloading : \A k \in downloading : j <= k
     ELSE 0

\* lines 735-755: the fields written for a callback d into the record v
hook_update(v, d) ==
  LET downloaded == IF d.downloaded_bytes # 0 THEN d.downloaded_bytes
                    ELSE d.downloaded_bytes_estimate
      total == IF d.total_bytes # 0 THEN d.total_bytes ELSE d.total_bytes_estimate
      downloaded_size == IF downloaded # 0 THEN downloaded ELSE v.downloaded_size
      file_size == IF total # 0 THEN total ELSE v.file_size
  IN IF d.status = "downloading"
       THEN [v EXCEPT !.downloaded_size = downloaded_size, !.file_size = file_size,
                      !.progress = IF file_size # 0
                                     THEN (downloaded_size * 100) \div file_size ELSE 0]
       ELSE [v EXCEPT !.progress = 100]

\* yt-dlp calls the hook while it fetches item i
progress_hook(i, d) ==
  /\ hooked[i].status = "downloading"
  /\ LET idx == attribute(i, hook_filename(i))
     IN hooked' = IF idx = 0 THEN hooked
                  ELSE [hooked EXCEPT ![idx] = hook_update(hooked[idx], d)]
  /\ HookFrame

\* lines 842-853: the fetch of item i has returned and its file is there
hook_completed(i, size) ==
  /\ hooked[i].status = "downloading"
  /\ size # 0
  /\ hooked' = [hooked EXCEPT ![i].status = "completed", ![i].filename = hook_filename(i),
                              ![i].file_size = size, ![i].progress = 100]
  /\ HookFrame

NextHook ==
  \/ \E i \in HookItems : hook_checking(i)
  \/ \E i \in HookItems : hook_downloading(i)
  \/ \E i \in HookItems, d \in Callbacks : progress_hook(i, d)
  \/ \E i \in HookItems, size \in Bytes : hook_completed(i, size)

\* ======================= the orchestrator =======================
\* ---- records ----
\* error_message: "" stands for None
AbsentTask ==
  [status |-> "absent", progress |-> 0, total_videos |-> 0,
   success_count |-> 0, failure_count |-> 0, active_downloads |-> 0,
   current_video |-> "", completed |-> FALSE, error_message |-> ""]

NoRequest == [max_videos |-> 0, skip_duplicates |-> FALSE]

VideoDownload == [status |-> "pending", error |-> "", filename |-> ""]

NoMessage == [type |-> "none", task |-> AbsentTask, videos |-> <<>>]

TerminalTask == {"completed", "failed"}
TerminalItem == {"skipped", "completed", "failed"}
ActivePc == {"lookup", "fetch", "except"}

\* ---- helpers ----
CountStatus(t, S) ==
  Cardinality({i \in DOMAIN video_downloads[t] : video_downloads[t][i].status \in S})

CountStatusIn(vds, S) ==
  Cardinality({i \in DOMAIN vds : vds[i].status \in S})

ItemsOf(t) == {<<t, i>> : i \in DOMAIN wpc[t]}

AllItems == UNION {ItemsOf(t) : t \in Tasks}

\* threads of download_executor that are inside download_single_video
ActiveWorkers == Cardinality({p \in AllItems : wpc[p[1]][p[2]] \in ActivePc})

StatusUpdate(t) ==
  [type |-> "status_update", task |-> tasks_storage[t]', videos |-> <<>>]

ProgressUpdate(t) ==
  [type |-> "progress_update", task |-> tasks_storage[t]',
   videos |-> [i \in DOMAIN video_downloads[t] |-> video_downloads[t][i].status]]

\* start_time and end_time of an item are datetime objects once the worker has set
\* them (lines 787, 799, 852, 861, 872), which is from "downloading" on
Timed(status) == status \notin {"pending", "checking"}

\* json.dumps(data), line 152: asdict(v) keeps the datetime objects of the items, and
\* json.dumps raises TypeError on a datetime
Serializable(data) == \A i \in DOMAIN data.videos : ~Timed(data.videos[i])

\* variant of send_update: a failed delivery leaves the registration in place
send_update_keeps(t, data) ==
  LET ws == active_connections[t] IN
  IF ws = 0
    THEN UNCHANGED <<active_connections, received>>
    ELSE IF conn[ws] = "open" /\ Serializable(data)
      THEN /\ received' = [received EXCEPT ![ws] = data]
           /\ UNCHANGED active_connections
      ELSE UNCHANGED <<active_connections, received>>

\* variant of send_update: every payload can be serialized
send_update_any(t, data) ==
  LET ws == active_connections[t] IN
  IF ws = 0
    THEN UNCHANGED <<active_connections, received>>
    ELSE IF conn[ws] = "open"
      THEN /\ received' = [received EXCEPT ![ws] = data]
           /\ UNCHANGED active_connections
      ELSE /\ active_connections' = [active_connections EXCEPT ![t] = 0]
           /\ UNCHANGED received

\* ConnectionManager.send_update: serializing or sending raises -> disconnect(task_id)
send_update(t, data) ==
  LET ws == active_connections[t] IN
  IF ws = 0
    THEN UNCHANGED <<active_connections, received>>
    ELSE IF conn[ws] = "open" /\ Serializable(data)
      THEN /\ received' = [received EXCEPT ![ws] = data]
           /\ UNCHANGED active_connections
      ELSE /\ active_connections' = [active_connections EXCEPT ![t] = 0]
           /\ UNCHANGED received

\* the loop after "await manager.send_update(...)": ws.send_text suspends the
\* coroutine only when there is a socket to send to
AfterSend(t) == IF active_connections[t] # 0 THEN 0 ELSE t

\* update_task_status_realtime; every caller passes the text that goes with the
\* status it sets, and the status stands for that text in current_video
update_task_status_realtime(t, status, progress, total, completed) ==
  /\ tasks_storage' = [tasks_storage EXCEPT ![t] =
        [@ EXCEPT !.status = status, !.progress = progress,
                  !.total_videos = total, !.current_video = status,
                  !.completed = completed]]
  /\ send_update(t, StatusUpdate(t))

\* ---- GET /api/status/{task_id} ----
NoResponse == [status_code |-> 0, status |-> AbsentTask, video_downloads |-> <<>>]

\* variant of status_response: the record of the task, registered or not
status_response_any(t) ==
  [status_code |-> 200, status |-> tasks_storage[t], video_downloads |-> video_downloads[t]]

\* lines 283-289: HTTPException(404) for a task_id that is not in tasks_storage,
\* and a copy of the record with the items otherwise
status_response(t) ==
  IF tasks_storage[t].status = "absent"
    THEN [status_code |-> 404, status |-> AbsentTask, video_downloads |-> <<>>]
    ELSE [status_code |-> 200, status |-> tasks_storage[t],
          video_downloads |-> video_downloads[t]]

\* get_status runs on the event loop; the "with storage_lock" block of line 282
\* is left by the return and by the raise alike
get_status(t) ==
  /\ loop = 0
  /\ storage_lock = 0
  /\ response' = status_response(t)
  /\ UNCHANGED <<inflight, hookVars, hashVars, outVars, lockVars, poolVars, threadVars, dupVars,
                 orchVars>>

Init ==
  /\ tasks_storage = [t \in Tasks |-> AbsentTask]
  /\ video_downloads = [t \in Tasks |-> <<>>]
  /\ request = [t \in Tasks |-> NoRequest]
  /\ ppc = [t \in Tasks |-> "none"]
  /\ video_info_list = [t \in Tasks |-> -1]
  /\ loop = 0
  /\ pending = [t \in Tasks |-> 0]
  /\ wpc = [t \in Tasks |-> <<>>]
  /\ exc = [t \in Tasks |-> <<>>]
  /\ fetches = [t \in Tasks |-> <<>>]
  /\ fetch_error = [t \in Tasks |-> <<>>]
  /\ active_connections = [t \in Tasks |-> 0]
  /\ conn = [s \in Subs |-> "none"]
  /\ sub_task = [s \in Subs |-> 0]
  /\ received = [s \in Subs |-> NoMessage]
  /\ PoolInit
  /\ ThreadInit
  /\ DupInit
  /\ HashInit
  /\ OutInit
  /\ LockInit
  /\ HookInit
  /\ response = NoResponse
  /\ inflight = [t \in Tasks |-> 0]

\* POST /api/download: start_download
start_download(t, max_videos, skip_duplicates) ==
  /\ loop = 0
  /\ ppc[t] = "none"
  /\ \A u \in Tasks : u < t => ppc[u] # "none"
  /\ tasks_storage' = [tasks_storage EXCEPT ![t] =
        [status |-> "initializing", progress |-> 0, total_videos |-> max_videos,
         success_count |-> 0, failure_count |-> 0, active_downloads |-> 0,
         current_video |-> "Starting...", completed |-> FALSE, error_message |-> ""]]
  /\ video_downloads' = [video_downloads EXCEPT ![t] = <<>>]
  /\ request' = [request EXCEPT ![t] =
        [max_videos |-> max_videos, skip_duplicates |-> skip_duplicates]]
  /\ ppc' = [ppc EXCEPT ![t] = "start"]
  /\ UNCHANGED <<video_info_list, loop, pending, workVars, subVars>>
  /\ UNCHANGED auxVars

\* process_download_enhanced, line 542
process_fetching(t) ==
  /\ loop = 0
  /\ ppc[t] = "start"
  /\ update_task_status_realtime(t, "fetching", 0, request[t].max_videos, FALSE)
  /\ ppc' = [ppc EXCEPT ![t] = "resolve"]
  /\ loop' = AfterSend(t)
  /\ UNCHANGED <<video_downloads, request, video_info_list, pending, workVars, conn, sub_task>>
  /\ UNCHANGED auxVars

\* variant of process_no_videos: the emptiness test of line 554 is missing, so the
\* empty list is registered and the task goes on to "downloading"
process_no_videos_unchecked(t) ==
  /\ loop \in {0, t}
  /\ ppc[t] = "resolve"
  /\ video_info_list' = [video_info_list EXCEPT ![t] = 0]
  /\ update_task_status_realtime(t, "downloading", 0, 0, FALSE)
  /\ ppc' = [ppc EXCEPT ![t] = "submit"]
  /\ loop' = AfterSend(t)
  /\ UNCHANGED <<video_downloads, request, pending, workVars, conn, sub_task>>
  /\ UNCHANGED auxVars

\* process_download_enhanced, lines 552-556: get_video_info_detailed found nothing
process_no_videos(t) ==
  /\ loop \in {0, t}
  /\ ppc[t] = "resolve"
  /\ video_info_list' = [video_info_list EXCEPT ![t] = 0]
  /\ update_task_status_realtime(t, "failed", 0, request[t].max_videos, TRUE)
  /\ ppc' = [ppc EXCEPT ![t] = "return556"]
  /\ loop' = 0
  /\ UNCHANGED <<video_downloads, request, pending, workVars, conn, sub_task>>
  /\ UNCHANGED auxVars

\* variant of process_register: the task is reported completed as soon as the
\* list is registered, without a download phase
process_register_completes(t, n) ==
  /\ loop \in {0, t}
  /\ ppc[t] = "resolve"
  /\ n \in 1..request[t].max_videos
  /\ video_info_list' = [video_info_list EXCEPT ![t] = n]
  /\ video_downloads' = [video_downloads EXCEPT ![t] = [i \in 1..n |-> VideoDownload]]
  /\ update_task_status_realtime(t, "completed", 0, n, FALSE)
  /\ wpc' = [wpc EXCEPT ![t] = [i \in 1..n |-> "idle"]]
  /\ exc' = [exc EXCEPT ![t] = [i \in 1..n |-> ""]]
  /\ fetches' = [fetches EXCEPT ![t] = [i \in 1..n |-> 0]]
  /\ fetch_error' = [fetch_error EXCEPT ![t] = [i \in 1..n |-> ""]]
  /\ ppc' = [ppc EXCEPT ![t] = "submit"]
  /\ loop' = AfterSend(t)
  /\ UNCHANGED <<request, pending, conn, sub_task>>
  /\ UNCHANGED auxVars

\* process_download_enhanced, lines 552-574: n entries resolved and registered
process_register(t, n) ==
  /\ loop \in {0, t}
  /\ ppc[t] = "resolve"
  /\ n \in 1..request[t].max_videos
  /\ video_info_list' = [video_info_list EXCEPT ![t] = n]
  /\ video_downloads' = [video_downloads EXCEPT ![t] = [i \in 1..n |-> VideoDownload]]
  /\ update_task_status_realtime(t, "downloading", 0, n, FALSE)
  /\ wpc' = [wpc EXCEPT ![t] = [i \in 1..n |-> "idle"]]
  /\ exc' = [exc EXCEPT ![t] = [i \in 1..n |-> ""]]
  /\ fetches' = [fetches EXCEPT ![t] = [i \in 1..n |-> 0]]
  /\ fetch_error' = [fetch_error EXCEPT ![t] = [i \in 1..n |-> ""]]
  /\ ppc' = [ppc EXCEPT ![t] = "submit"]
  /\ loop' = AfterSend(t)
  /\ UNCHANGED <<request, pending, conn, sub_task>>
  /\ UNCHANGED auxVars

\* download_videos_realtime, lines 879-886: every item goes to download_executor
\* and the loop thread blocks in future.result()
download_videos_realtime(t) ==
  /\ loop \in {0, t}
  /\ ppc[t] = "submit"
  /\ wpc' = [wpc EXCEPT ![t] = [i \in DOMAIN @ |-> "queued"]]
  /\ ppc' = [ppc EXCEPT ![t] = "wave"]
  /\ loop' = t
  /\ UNCHANGED <<tasks_storage, video_downloads, request, video_info_list, pending,
                 exc, fetches, fetch_error, subVars>>
  /\ UNCHANGED auxVars

\* ---- download_single_video, run by a thread of download_executor ----
SetItem(t, i, status, error, filename) ==
  video_downloads' = [video_downloads EXCEPT ![t][i] =
      [status |-> status, error |-> error, filename |-> filename]]

Schedule(t) == pending' = [pending EXCEPT ![t] = @ + 1]

\* lines 854-856 and 789-791, evaluated on the updated item list
UpdateSuccess(t) ==
  LET completed == CountStatusIn(video_downloads'[t], {"completed", "skipped"}) IN
  tasks_storage' = [tasks_storage EXCEPT ![t] =
      [@ EXCEPT !.progress = completed, !.success_count = completed]]

\* lines 862-863 and 873-874
UpdateFailure(t) ==
  LET failed == CountStatusIn(video_downloads'[t], {"failed"}) IN
  tasks_storage' = [tasks_storage EXCEPT ![t] = [@ EXCEPT !.failure_count = failed]]

\* variant of worker_start: one thread per submitted item, no pool bound
worker_start_unbounded(t, i) ==
  /\ i \in DOMAIN wpc[t]
  /\ wpc[t][i] = "queued"
  /\ \A j \in 1..(i - 1) : wpc[t][j] # "queued"
  /\ SetItem(t, i, "checking", video_downloads[t][i].error, video_downloads[t][i].filename)
  /\ Schedule(t)
  /\ wpc' = [wpc EXCEPT ![t][i] = "lookup"]
  /\ UNCHANGED <<tasks_storage, request, ppc, video_info_list, loop, exc, fetches,
                 fetch_error, subVars>>
  /\ UNCHANGED auxVars

\* a free thread takes the next queued item (FIFO work queue); lines 770-774
worker_start(t, i) ==
  /\ i \in DOMAIN wpc[t]
  /\ wpc[t][i] = "queued"
  /\ \A j \in 1..(i - 1) : wpc[t][j] # "queued"
  /\ ActiveWorkers < MaxWorkers
  /\ SetItem(t, i, "checking", video_downloads[t][i].error, video_downloads[t][i].filename)
  /\ Schedule(t)
  /\ wpc' = [wpc EXCEPT ![t][i] = "lookup"]
  /\ UNCHANGED <<tasks_storage, request, ppc, video_info_list, loop, exc, fetches,
                 fetch_error, subVars>>
  /\ UNCHANGED auxVars

\* lines 777-793: check_existing_file found a file; os.path.getsize may raise
worker_skip(t, i, size_ok) ==
  /\ i \in DOMAIN wpc[t]
  /\ wpc[t][i] = "lookup"
  /\ request[t].skip_duplicates
  /\ SetItem(t, i, "skipped", video_downloads[t][i].error, "existing")
  /\ IF size_ok
       THEN /\ UpdateSuccess(t)
            /\ Schedule(t)
            /\ wpc' = [wpc EXCEPT ![t][i] = "done"]
            /\ UNCHANGED exc
       ELSE /\ wpc' = [wpc EXCEPT ![t][i] = "except"]
            /\ exc' = [exc EXCEPT ![t][i] = "size_error"]
            /\ UNCHANGED <<tasks_storage, pending>>
  /\ UNCHANGED <<request, ppc, video_info_list, loop, fetches, fetch_error, subVars>>
  /\ UNCHANGED auxVars

\* line 778: check_existing_file raises (os.listdir)
worker_lookup_raises(t, i) ==
  /\ i \in DOMAIN wpc[t]
  /\ wpc[t][i] = "lookup"
  /\ request[t].skip_duplicates
  /\ wpc' = [wpc EXCEPT ![t][i] = "except"]
  /\ exc' = [exc EXCEPT ![t][i] = "lookup_error"]
  /\ UNCHANGED <<procVars, loop, fetches, fetch_error, subVars>>
  /\ UNCHANGED auxVars

\* lines 795-807: no existing file, or skip_duplicates is off
worker_mark_downloading(t, i) ==
  /\ i \in DOMAIN wpc[t]
  /\ wpc[t][i] = "lookup"
  /\ SetItem(t, i, "downloading", "", "")
  /\ Schedule(t)
  /\ wpc' = [wpc EXCEPT ![t][i] = "fetch"]
  /\ UNCHANGED <<tasks_storage, request, ppc, video_info_list, loop, exc, fetches,
                 fetch_error, subVars>>
  /\ UNCHANGED auxVars

\* lines 813-856: extract_info returned and a file name was resolved
worker_completed(t, i, size_ok) ==
  /\ i \in DOMAIN wpc[t]
  /\ wpc[t][i] = "fetch"
  /\ fetches' = [fetches EXCEPT ![t][i] = @ + 1]
  /\ SetItem(t, i, "completed", video_downloads[t][i].error, "downloaded")
  /\ IF size_ok
       THEN /\ UpdateSuccess(t)
            /\ Schedule(t)
            /\ wpc' = [wpc EXCEPT ![t][i] = "done"]
            /\ UNCHANGED exc
       ELSE /\ wpc' = [wpc EXCEPT ![t][i] = "except"]
            /\ exc' = [exc EXCEPT ![t][i] = "size_error"]
            /\ UNCHANGED <<tasks_storage, pending>>
  /\ UNCHANGED <<request, ppc, video_info_list, loop, fetch_error, subVars>>
  /\ UNCHANGED auxVars

\* variant of worker_file_not_found: the item is completed without a file name
worker_file_unnamed(t, i) ==
  /\ i \in DOMAIN wpc[t]
  /\ wpc[t][i] = "fetch"
  /\ fetches' = [fetches EXCEPT ![t][i] = @ + 1]
  /\ SetItem(t, i, "completed", video_downloads[t][i].error, video_downloads[t][i].filename)
  /\ UpdateSuccess(t)
  /\ Schedule(t)
  /\ wpc' = [wpc EXCEPT ![t][i] = "done"]
  /\ UNCHANGED <<request, ppc, video_info_list, loop, exc, fetch_error, subVars>>
  /\ UNCHANGED auxVars

\* lines 813-866: extract_info returned but no file name could be resolved
worker_file_not_found(t, i) ==
  /\ i \in DOMAIN wpc[t]
  /\ wpc[t][i] = "fetch"
  /\ fetches' = [fetches EXCEPT ![t][i] = @ + 1]
  /\ SetItem(t, i, "failed", "Downloaded but file not found", video_downloads[t][i].filename)
  /\ UpdateFailure(t)
  /\ Schedule(t)
  /\ wpc' = [wpc EXCEPT ![t][i] = "done"]
  /\ UNCHANGED <<request, ppc, video_info_list, loop, exc, fetch_error, subVars>>
  /\ UNCHANGED auxVars

\* line 814: extract_info raises with message m
worker_fetch_raises(t, i, m) ==
  /\ i \in DOMAIN wpc[t]
  /\ wpc[t][i] = "fetch"
  /\ fetches' = [fetches EXCEPT ![t][i] = @ + 1]
  /\ fetch_error' = [fetch_error EXCEPT ![t][i] = m]
  /\ wpc' = [wpc EXCEPT ![t][i] = "except"]
  /\ exc' = [exc EXCEPT ![t][i] = m]
  /\ UNCHANGED <<procVars, loop, subVars>>
  /\ UNCHANGED auxVars

\* variant of worker_except: a failed fetch is tried once more
worker_except_retry(t, i) ==
  /\ i \in DOMAIN wpc[t]
  /\ wpc[t][i] = "except"
  /\ SetItem(t, i, "failed", exc[t][i], video_downloads[t][i].filename)
  /\ UpdateFailure(t)
  /\ Schedule(t)
  /\ wpc' = [wpc EXCEPT ![t][i] =
        IF fetch_error[t][i] # "" /\ fetches[t][i] < 2 THEN "fetch" ELSE "done"]
  /\ exc' = [exc EXCEPT ![t][i] = ""]
  /\ UNCHANGED <<request, ppc, video_info_list, loop, fetches, fetch_error, subVars>>
  /\ UNCHANGED auxVars

\* variant of worker_except: a fixed text is stored instead of str(e)
worker_except_generic(t, i) ==
  /\ i \in DOMAIN wpc[t]
  /\ wpc[t][i] = "except"
  /\ SetItem(t, i, "failed", "Download failed", video_downloads[t][i].filename)
  /\ UpdateFailure(t)
  /\ Schedule(t)
  /\ wpc' = [wpc EXCEPT ![t][i] = "done"]
  /\ exc' = [exc EXCEPT ![t][i] = ""]
  /\ UNCHANGED <<request, ppc, video_info_list, loop, fetches, fetch_error, subVars>>
  /\ UNCHANGED auxVars

\* lines 868-876
worker_except(t, i) ==
  /\ i \in DOMAIN wpc[t]
  /\ wpc[t][i] = "except"
  /\ SetItem(t, i, "failed", exc[t][i], video_downloads[t][i].filename)
  /\ UpdateFailure(t)
  /\ Schedule(t)
  /\ wpc' = [wpc EXCEPT ![t][i] = "done"]
  /\ exc' = [exc EXCEPT ![t][i] = ""]
  /\ UNCHANGED <<request, ppc, video_info_list, loop, fetches, fetch_error, subVars>>
  /\ UNCHANGED auxVars

\* process_download_enhanced, lines 577-598: every future has returned;
\* create_task_zip_file may raise, which the handler at line 597 catches
process_finish(t, zip_ok) ==
  /\ loop = t
  /\ ppc[t] = "wave"
  /\ \A i \in DOMAIN wpc[t] : wpc[t][i] = "done"
  /\ IF zip_ok
       THEN /\ update_task_status_realtime(t, "completed",
                 CountStatus(t, {"completed", "skipped"}),
                 Len(video_downloads[t]), TRUE)
            /\ ppc' = [ppc EXCEPT ![t] = "return595"]
       ELSE /\ update_task_status_realtime(t, "failed", 0, request[t].max_videos, TRUE)
            /\ ppc' = [ppc EXCEPT ![t] = "except598"]
  /\ loop' = 0
  /\ UNCHANGED <<video_downloads, request, video_info_list, pending, workVars, conn, sub_task>>
  /\ UNCHANGED auxVars

\* variant of send_video_progress_update: the publish also derives the task status
send_video_progress_update_status(t) ==
  /\ loop = 0
  /\ pending[t] > 0
  /\ pending' = [pending EXCEPT ![t] = @ - 1]
  /\ tasks_storage' = [tasks_storage EXCEPT ![t] =
        [@ EXCEPT !.progress = CountStatus(t, {"completed", "skipped"}),
                  !.success_count = CountStatus(t, {"completed", "skipped"}),
                  !.failure_count = CountStatus(t, {"failed"}),
                  !.active_downloads = CountStatus(t, {"downloading"}),
                  !.current_video = "counts",
                  !.status = IF CountStatus(t, TerminalItem) = Len(video_downloads[t])
                               THEN "completed" ELSE "downloading"]]
  /\ send_update(t, ProgressUpdate(t))
  /\ UNCHANGED <<video_downloads, request, ppc, video_info_list, loop, workVars, conn, sub_task>>
  /\ UNCHANGED auxVars

\* send_video_progress_update, run on MAIN_LOOP for one scheduled call;
\* "counts" stands for the text of line 913, made of the counters stored with it
send_video_progress_update(t) ==
  /\ loop = 0
  /\ pending[t] > 0
  /\ pending' = [pending EXCEPT ![t] = @ - 1]
  /\ tasks_storage' = [tasks_storage EXCEPT ![t] =
        [@ EXCEPT !.progress = CountStatus(t, {"completed", "skipped"}),
                  !.success_count = CountStatus(t, {"completed", "skipped"}),
                  !.failure_count = CountStatus(t, {"failed"}),
                  !.active_downloads = CountStatus(t, {"downloading"}),
                  !.current_video = "counts"]]
  /\ send_update(t, ProgressUpdate(t))
  /\ UNCHANGED <<video_downloads, request, ppc, video_info_list, loop, workVars, conn, sub_task>>
  /\ UNCHANGED auxVars

\* websocket_endpoint, lines 232-236: connect and the first status message
websocket_endpoint(s, t) ==
  /\ loop = 0
  /\ conn[s] = "none"
  /\ ppc[t] # "none"
  /\ conn' = [conn EXCEPT ![s] = "open"]
  /\ sub_task' = [sub_task EXCEPT ![s] = t]
  /\ active_connections' = [active_connections EXCEPT ![t] = s]
  /\ received' = [received EXCEPT ![s] =
        [type |-> "status_update", task |-> tasks_storage[t], videos |-> <<>>]]
  /\ UNCHANGED <<procVars, loop, workVars>>
  /\ UNCHANGED auxVars

\* websocket_endpoint, lines 237-242: one round of the heartbeat loop
heartbeat(s) ==
  /\ loop = 0
  /\ conn[s] # "none"
  /\ tasks_storage[sub_task[s]].status # "absent"
  /\ send_update(sub_task[s],
        [type |-> "status_update", task |-> tasks_storage[sub_task[s]], videos |-> <<>>])
  /\ UNCHANGED <<procVars, loop, workVars, conn, sub_task>>
  /\ UNCHANGED auxVars

\* the client closes its socket
client_close(s) ==
  /\ conn[s] = "open"
  /\ conn' = [conn EXCEPT ![s] = "closed"]
  /\ UNCHANGED <<procVars, loop, workVars, active_connections, sub_task, received>>
  /\ UNCHANGED auxVars

\* ---- GET /api/zip/{task_id} ----
\* download_zip, lines 347-364.  The archive of a task is there once line 581
\* has written it (ppc = "return595").  With the archive missing and the download_dir
\* of line 569 set, create_task_zip_file is called inside the "with storage_lock"
\* block and waits at line 116 for the lock that its own thread holds: the event
\* loop (loop = -1) never runs anything again.  Otherwise the handler answers
\* and changes nothing.
download_zip(t) ==
  /\ loop = 0
  /\ storage_lock = 0
  /\ IF ppc[t] \in {"submit", "wave", "except598"}
       THEN /\ loop' = -1
            /\ storage_lock' = LoopThread
       ELSE UNCHANGED <<loop, storage_lock>>
  /\ UNCHANGED <<procVars, workVars, subVars, run, apiVars, hookVars, hashVars, outVars,
                 poolVars, threadVars, dupVars>>

\* ---- a send that does not return at once ----
RaceFrame ==
  UNCHANGED <<response, hookVars, hashVars, outVars, lockVars, poolVars, threadVars, dupVars>>

\* ConnectionManager.connect, lines 136-139
connect(s, t) ==
  /\ conn[s] = "none"
  /\ conn' = [conn EXCEPT ![s] = "open"]
  /\ sub_task' = [sub_task EXCEPT ![s] = t]
  /\ active_connections' = [active_connections EXCEPT ![t] = s]
  /\ UNCHANGED <<procVars, loop, workVars, received, inflight>>
  /\ RaceFrame

\* send_update of a status message, lines 147-152: the socket registered for the
\* task is read and "await ws.send_text(...)" suspends the sender
send_begin(t) ==
  /\ tasks_storage[t].status # "absent"
  /\ inflight[t] = 0
  /\ active_connections[t] # 0
  /\ inflight' = [inflight EXCEPT ![t] = active_connections[t]]
  /\ UNCHANGED orchVars
  /\ RaceFrame

\* lines 152-155: send_text returns, or it raises and disconnect(task_id) deletes
\* the entry of the task
send_end(t) ==
  /\ inflight[t] # 0
  /\ IF conn[inflight[t]] = "open"
       THEN /\ received' = [received EXCEPT ![inflight[t]] =
                   [type |-> "status_update", task |-> tasks_storage[t], videos |-> <<>>]]
            /\ UNCHANGED active_connections
       ELSE /\ active_connections' = [active_connections EXCEPT ![t] = 0]
            /\ UNCHANGED received
  /\ inflight' = [inflight EXCEPT ![t] = 0]
  /\ UNCHANGED <<procVars, loop, workVars, conn, sub_task>>
  /\ RaceFrame

Next ==
  \/ \E t \in FirstTask, d \in BOOLEAN : start_download(t, MaxItems, d)
  \/ \E t \in FirstTask : process_fetching(t)
  \/ \E t \in FirstTask : process_no_videos(t)
  \/ \E t \in FirstTask, n \in 1..MaxItems : process_register(t, n)
  \/ \E t \in FirstTask : download_videos_realtime(t)
  \/ \E t \in FirstTask, i \in 1..MaxItems : worker_start(t, i)
  \/ \E t \in FirstTask, i \in 1..MaxItems, ok \in BOOLEAN : worker_skip(t, i, ok)
  \/ \E t \in FirstTask, i \in 1..MaxItems : worker_lookup_raises(t, i)
  \/ \E t \in FirstTask, i \in 1..MaxItems : worker_mark_downloading(t, i)
  \/ \E t \in FirstTask, i \in 1..MaxItems, ok \in BOOLEAN : worker_completed(t, i, ok)
  \/ \E t \in FirstTask, i \in 1..MaxItems : worker_file_not_found(t, i)
  \/ \E t \in FirstTask, i \in 1..MaxItems, m \in FetchMsgs : worker_fetch_raises(t, i, m)
  \/ \E t \in FirstTask, i \in 1..MaxItems : worker_except(t, i)
  \/ \E t \in FirstTask, ok \in BOOLEAN : process_finish(t, ok)
  \/ \E t \in FirstTask : send_video_progress_update(t)
  \/ \E s \in FirstSubs, t \in FirstTask : websocket_endpoint(s, t)
  \/ \E s \in FirstSubs : heartbeat(s)
  \/ \E s \in FirstSubs : client_close(s)

Spec == Init /\ [][Next]_vars

\* One task of WaveItems items and no subscriber: the worker wave alone.
NextWave ==
  \/ \E t \in FirstTask, d \in BOOLEAN : start_download(t, WaveItems, d)
  \/ \E t \in FirstTask : process_fetching(t)
  \/ \E t \in FirstTask : process_no_videos(t)
  \/ \E t \in FirstTask : process_register(t, WaveItems)
  \/ \E t \in FirstTask : download_videos_realtime(t)
  \/ \E t \in FirstTask, i \in 1..WaveItems : worker_start(t, i)
  \/ \E t \in FirstTask, i \in 1..WaveItems, ok \in BOOLEAN : worker_skip(t, i, ok)
  \/ \E t \in FirstTask, i \in 1..WaveItems : worker_lookup_raises(t, i)
  \/ \E t \in FirstTask, i \in 1..WaveItems : worker_mark_downloading(t, i)
  \/ \E t \in FirstTask, i \in 1..WaveItems, ok \in BOOLEAN : worker_completed(t, i, ok)
  \/ \E t \in FirstTask, i \in 1..WaveItems : worker_file_not_found(t, i)
  \/ \E t \in FirstTask, i \in 1..WaveItems : worker_fetch_raises(t, i, "e1")
  \/ \E t \in FirstTask, i \in 1..WaveItems : worker_except(t, i)
  \/ \E t \in FirstTask, ok \in BOOLEAN : process_finish(t, ok)
  \/ \E t \in FirstTask : send_video_progress_update(t)

SpecWave == Init /\ [][NextWave]_vars

\* One task of one item and every subscriber of Subs.
ProcessSteps(t) ==
  \/ process_fetching(t)
  \/ process_no_videos(t)
  \/ process_register(t, 1)
  \/ download_videos_realtime(t)
  \/ \E ok \in BOOLEAN : process_finish(t, ok)

WorkerSteps(t, i) ==
  \/ worker_start(t, i)
  \/ worker_mark_downloading(t, i)
  \/ worker_completed(t, i, TRUE)
  \/ worker_fetch_raises(t, i, "e1")
  \/ worker_except(t, i)

NextSubs ==
  \/ \E t \in FirstTask : start_download(t, 1, FALSE)
  \/ \E t \in FirstTask : ProcessSteps(t)
  \/ \E t \in FirstTask : WorkerSteps(t, 1)
  \/ \E t \in FirstTask : send_video_progress_update(t)
  \/ \E s \in Subs, t \in FirstTask : websocket_endpoint(s, t)
  \/ \E s \in Subs : heartbeat(s)
  \/ \E s \in Subs : client_close(s)

SpecSubs == Init /\ [][NextSubs]_vars

\* the event loop runs every ready coroutine and the pool threads run: the task,
\* its worker, the queued publishes and each heartbeat loop go on
FairSubs ==
  /\ SpecSubs
  /\ \A t \in FirstTask : WF_vars(ProcessSteps(t))
  /\ \A t \in FirstTask : WF_vars(WorkerSteps(t, 1))
  /\ \A t \in FirstTask : WF_vars(send_video_progress_update(t))
  /\ \A s \in Subs : WF_vars(heartbeat(s))

\* One proxy pool used by one caller at a time.
SpecPool == Init /\ [][NextPool]_vars

\* The same pool called by two threads while the background thread refreshes it.
SpecThreads == Init /\ [][NextThreads]_vars

\* the duplicate lookup alone, on a directory that fills up
SpecDup == Init /\ [][NextDup]_vars

\* generate_video_id_hash applied to the urls of Urls
SpecHash == Init /\ [][NextHash]_vars

\* entries listed, downloaded and looked up again
SpecOutput == Init /\ [][NextOutput]_vars

\* the event loop and one pool thread at their uses of storage_lock
SpecLock == Init /\ [][NextLock]_vars

\* One task of one item, the subscribers, and status queries for both task ids.
NextApi ==
  \/ NextSubs
  \/ \E t \in Tasks : get_status(t)

SpecApi == Init /\ [][NextApi]_vars

\* One task of one item, the subscribers, status queries and archive requests.
NextZip ==
  \/ NextApi
  \/ \E t \in Tasks : download_zip(t)

SpecZip == Init /\ [][NextZip]_vars

\* the event loop runs every ready coroutine and the pool threads run
FairZip ==
  /\ SpecZip
  /\ \A t \in FirstTask : WF_vars(ProcessSteps(t))
  /\ \A t \in FirstTask : WF_vars(WorkerSteps(t, 1))
  /\ \A t \in FirstTask : WF_vars(send_video_progress_update(t))
  /\ \A s \in Subs : WF_vars(heartbeat(s))

\* The sockets of the tasks and the sends to them, each send in two steps.
NextRace ==
  \/ \E t \in Tasks : start_download(t, 1, FALSE)
  \/ \E s \in Subs, t \in Tasks : connect(s, t)
  \/ \E t \in Tasks : send_begin(t)
  \/ \E t \in Tasks : send_end(t)
  \/ \E s \in Subs : client_close(s)

SpecRace == Init /\ [][NextRace]_vars

\* the items of a wave under the callbacks of their fetches
SpecHook == Init /\ [][NextHook]_vars

\* ======================= claims =======================

Status(t) == tasks_storage[t].status

ItemStatus(t, i) == video_downloads[t][i].status

Delivered(s) == received[s].type # "none"

\* C1: for every task, in every reachable state and in every delivered message,
\* completed + failed + skipped is at most total_videos, both counted on the item
\* statuses and as the counters success_count + failure_count expose it.
C1_CountsWithinTotal ==
  /\ \A t \in Tasks : Status(t) # "absent" =>
        /\ CountStatus(t, TerminalItem) <= tasks_storage[t].total_videos
        /\ tasks_storage[t].success_count + tasks_storage[t].failure_count
              <= tasks_storage[t].total_videos
  /\ \A s \in Subs : Delivered(s) =>
        received[s].task.success_count + received[s].task.failure_count
           <= received[s].task.total_videos

\* C2: whenever a task's status is completed or failed, the number of its items
\* that are completed, failed or skipped equals total_videos.
C2_TerminalCountsEqualTotal ==
  \A t \in Tasks : Status(t) \in TerminalTask =>
     CountStatus(t, TerminalItem) = tasks_storage[t].total_videos

ForwardTaskSteps ==
  {<<"absent", "initializing">>, <<"initializing", "fetching">>,
   <<"fetching", "downloading">>, <<"downloading", "completed">>,
   <<"initializing", "failed">>, <<"fetching", "failed">>, <<"downloading", "failed">>}

\* C3: a task's status only moves forward along initializing -> fetching ->
\* downloading -> completed, or to failed from a state that is not terminal; it never
\* moves backwards or skips a stage on the way to completed, and it enters
\* downloading only with its item list registered.
C3_TaskStatusForward ==
  [][\A t \in Tasks :
        /\ Status(t)' = Status(t) \/ <<Status(t), Status(t)'>> \in ForwardTaskSteps
        /\ (Status(t)' = "downloading" /\ Status(t) # "downloading")
              => Len(video_downloads'[t]) >= 1]_vars

C3_Witness ==
  \E t \in Tasks : Status(t) = "completed" /\ Len(video_downloads[t]) >= 1

\* C4: once a task's status is completed or failed, no step changes it.
C4_TerminalTaskStatusStable ==
  [][\A t \in Tasks : Status(t) \in TerminalTask => Status(t)' = Status(t)]_vars

\* a task that ended with items, whose queued publishes have all run since, one of
\* them delivered to a subscriber
C4_Witness ==
  \E t \in Tasks, s \in Subs :
     /\ Status(t) \in TerminalTask
     /\ Len(video_downloads[t]) >= 1
     /\ pending[t] = 0
     /\ received[s].type = "status_update"
     /\ received[s].task.status \in TerminalTask

ItemSteps ==
  {<<"pending", "checking">>, <<"checking", "skipped">>, <<"checking", "downloading">>,
   <<"downloading", "completed">>, <<"downloading", "failed">>}

\* C5: every change of an item's status is one of pending -> checking, checking ->
\* skipped (only with skip_duplicates on), checking -> downloading, downloading ->
\* completed, downloading -> failed.
C5_ItemStepsOnly ==
  [][\A t \in Tasks : \A i \in DOMAIN video_downloads[t] :
        i \in DOMAIN video_downloads'[t] =>
          \/ ItemStatus(t, i)' = ItemStatus(t, i)
          \/ /\ <<ItemStatus(t, i), ItemStatus(t, i)'>> \in ItemSteps
             /\ ItemStatus(t, i)' = "skipped" => request[t].skip_duplicates]_vars

\* C6: once an item's status is skipped, completed or failed it never changes.
C6_TerminalItemStable ==
  [][\A t \in Tasks : \A i \in DOMAIN video_downloads[t] :
        (i \in DOMAIN video_downloads'[t] /\ ItemStatus(t, i) \in TerminalItem)
           => ItemStatus(t, i)' = ItemStatus(t, i)]_vars

\* C7: each item is processed once: the fetch provider is called at most once per
\* item, never for an item the duplicate lookup skipped, never again once the item
\* is failed, and download_single_video never runs again for an item it has left;
\* when the task has ended every item has been processed.
C7_FetchAtMostOnce ==
  /\ [](\A t \in Tasks : \A i \in DOMAIN video_downloads[t] :
          /\ fetches[t][i] <= 1
          /\ ItemStatus(t, i) = "skipped" => fetches[t][i] = 0
          /\ video_downloads[t][i].filename = "existing" => fetches[t][i] = 0
          /\ ppc[t] \in {"return595", "except598"} =>
               (wpc[t][i] = "done" /\ ItemStatus(t, i) \in TerminalItem))
  /\ [][\A t \in Tasks : \A i \in DOMAIN video_downloads[t] :
          /\ ItemStatus(t, i) = "failed" => fetches'[t][i] = fetches[t][i]
          /\ wpc[t][i] = "done" => wpc'[t][i] = "done"]_vars

C7_Witness ==
  \E t \in Tasks : \E i, j \in DOMAIN video_downloads[t] :
     /\ ppc[t] = "return595"
     /\ ItemStatus(t, i) = "failed" /\ fetches[t][i] = 1 /\ fetch_error[t][i] # ""
     /\ ItemStatus(t, j) = "skipped" /\ fetches[t][j] = 0

BusyItems ==
  {p \in AllItems : video_downloads[p[1]][p[2]].status \in {"checking", "downloading"}}

\* C8: the number of items whose status is checking or downloading, over all
\* tasks, is at most the pool size, and so is the number of items inside
\* download_single_video.
C8_BusyItemsWithinPool ==
  /\ Cardinality(BusyItems) <= MaxWorkers
  /\ ActiveWorkers <= MaxWorkers

\* all threads busy while a further item waits in the executor's queue
C8_Witness ==
  /\ Cardinality(BusyItems) = MaxWorkers
  /\ \E p \in AllItems : wpc[p[1]][p[2]] = "queued"

FetchFailed(t) == {i \in DOMAIN video_downloads[t] : fetch_error[t][i] # ""}

OtherFault(t) ==
  {i \in DOMAIN video_downloads[t] :
      fetch_error[t][i] = "" /\ video_downloads[t][i].error # ""}

\* C9: when process_download_enhanced has returned normally for a task whose
\* fetches failed for the items F: every item of F is failed with the message the
\* provider raised, every item outside F that met no fault of its own is completed
\* or skipped, the task is completed and failure_count is the number of failed
\* items; it is |F| when no item met another fault.
C9_FetchFailuresStayLocal ==
  \A t \in Tasks : ppc[t] = "return595" =>
     /\ Status(t) = "completed"
     /\ \A i \in FetchFailed(t) :
           ItemStatus(t, i) = "failed" /\ video_downloads[t][i].error = fetch_error[t][i]
     /\ \A i \in DOMAIN video_downloads[t] \ (FetchFailed(t) \cup OtherFault(t)) :
           ItemStatus(t, i) \in {"completed", "skipped"}
     /\ tasks_storage[t].failure_count =
           Cardinality(FetchFailed(t)) + Cardinality(OtherFault(t))

\* the fetch of the second item raises, every other item completes
C9_Witness ==
  \E t \in Tasks :
     /\ ppc[t] = "return595"
     /\ Len(video_downloads[t]) = MaxItems
     /\ FetchFailed(t) = {2}
     /\ \A i \in DOMAIN video_downloads[t] \ {2} : ItemStatus(t, i) = "completed"
     /\ ItemStatus(t, 2) = "failed" /\ video_downloads[t][2].error = "e2"
     /\ tasks_storage[t].failure_count = 1
     /\ Status(t) = "completed"

\* C10: when get_video_info_detailed returns no entry the task is failed from then
\* on, coming from fetching; it has no item, no worker and no scheduled publish.
C10_NoVideosFailsTask ==
  /\ [](\A t \in Tasks : video_info_list[t] = 0 =>
          /\ Status(t) = "failed"
          /\ video_downloads[t] = <<>>
          /\ wpc[t] = <<>> /\ fetches[t] = <<>>
          /\ pending[t] = 0)
  /\ [][\A t \in Tasks : (video_info_list[t] # 0 /\ video_info_list'[t] = 0) =>
          (Status(t) = "fetching" /\ Status(t)' = "failed")]_vars

C10_Witness ==
  \E t \in Tasks : video_info_list[t] = 0 /\ Status(t) = "failed" /\ ppc[t] = "return556"

\* C11: an item whose duplicate lookup raised is treated as a miss: it goes on from
\* checking to downloading and the fetch provider is called for it; the lookup error
\* never makes the item failed, so no item is failed with the lookup's error.
C11_LookupErrorIsMiss ==
  \A t \in Tasks : \A i \in DOMAIN video_downloads[t] :
     ItemStatus(t, i) = "failed" => video_downloads[t][i].error # "lookup_error"

\* C12: whenever a task's status is failed, its snapshot (tasks_storage, and every
\* message delivered to a subscriber) carries a non-empty error_message, and a
\* non-empty error_message is never taken away again.
C12_FailedTaskHasErrorMessage ==
  /\ [](\A t \in Tasks : Status(t) = "failed" => tasks_storage[t].error_message # "")
  /\ [](\A s \in Subs : (Delivered(s) /\ received[s].task.status = "failed")
            => received[s].task.error_message # "")
  /\ [][\A t \in Tasks : tasks_storage[t].error_message # ""
            => tasks_storage'[t].error_message = tasks_storage[t].error_message]_vars

\* ---- the proxy pool ----
AllFailed ==
  valid_proxies # <<>> /\ Range(valid_proxies) \subseteq failed_proxies

SomeFree ==
  \E k \in DOMAIN valid_proxies : valid_proxies[k] \notin failed_proxies

\* the first position at or after index, in cyclic order, whose endpoint is not failed
FirstFree(valid, failed, index) ==
  LET N == Len(valid)
      At(d) == ((index + d) % N) + 1
      d0 == CHOOSE d \in 0..(N - 1) :
               /\ valid[At(d)] \notin failed
               /\ \A c \in 0..(d - 1) : valid[At(c)] \in failed
  IN (index + d0) % N

\* C13: after any sequence of refresh, next and markFailed calls, next() returns
\* "none" exactly when the rotation list is empty; when it is not empty next()
\* returns without raising and what it returns is a member of the rotation list.
C13_NextReturnsMember ==
  call.op = "next" =>
     /\ (result.kind = "none" <=> valid_proxies = <<>>)
     /\ valid_proxies # <<>> =>
           (result.kind = "proxy" /\ result.proxy \in Range(valid_proxies))

\* C14: a next() call on a non-empty pool whose endpoints are all marked failed
\* empties the failure set, returns the endpoint at the position the cursor had
\* before the call, and leaves the cursor one position further.
C14_AllFailedSelfHeals ==
  [][(AllFailed /\ call'.op = "next") =>
        /\ failed_proxies' = {}
        /\ result'.kind = "proxy"
        /\ current_index < Len(valid_proxies)
        /\ result'.proxy = valid_proxies[current_index + 1]
        /\ current_index' = (current_index + 1) % Len(valid_proxies)]_vars

\* C15: a next() call on a pool with an endpoint that is not failed returns the
\* first such endpoint at or after the cursor in cyclic order, leaves the cursor
\* just past it and the failure set as it was; what it returns is not in the
\* failure set; and with an empty failure set, N calls in a row on a pool of N
\* return every position once.
C15_RoundRobin ==
  /\ [][(SomeFree /\ call'.op = "next") =>
          /\ result'.kind = "proxy"
          /\ result'.pos = FirstFree(valid_proxies, failed_proxies, current_index)
          /\ result'.proxy = valid_proxies[result'.pos + 1]
          /\ result'.proxy \notin failed_proxies
          /\ current_index' = (result'.pos + 1) % Len(valid_proxies)
          /\ failed_proxies' = failed_proxies]_vars
  /\ []((failed_proxies = {} /\ valid_proxies # <<>>
           /\ Len(rotation) = Len(valid_proxies))
          => Range(rotation) = 0..(Len(valid_proxies) - 1))

\* C16: mark_proxy_failed(e) adds e to the failure set and changes neither the
\* rotation list nor the cursor; a second mark_proxy_failed(e) right after the
\* first changes nothing.
C16_MarkFailedIdempotent ==
  /\ [][call'.op = "mark" =>
          /\ valid_proxies' = valid_proxies
          /\ current_index' = current_index
          /\ failed_proxies' = failed_proxies \cup {call'.proxy}]_vars
  /\ [][(call.op = "mark" /\ call'.op = "mark" /\ call'.proxy = call.proxy) =>
          UNCHANGED <<valid_proxies, failed_proxies, current_index>>]_vars

\* an endpoint of the rotation list marked failed after the cursor has moved
C16_Witness ==
  /\ call.op = "mark"
  /\ call.proxy \in failed_proxies
  /\ call.proxy \in Range(valid_proxies)
  /\ Len(valid_proxies) = MaxProxies
  /\ current_index > 0

\* C17: a refresh that succeeds leaves exactly the accepted candidates in the
\* rotation list and the failure set empty; a refresh whose request raises leaves
\* the rotation list, the failure set and the cursor as they were.
C17_RefreshReplaces ==
  /\ []((call.op = "refresh" /\ call.ok) =>
          /\ Range(valid_proxies) = call.offered
          /\ Len(valid_proxies) = Cardinality(call.offered)
          /\ failed_proxies = {})
  /\ [][(call'.op = "refresh" /\ ~call'.ok) =>
          UNCHANGED <<valid_proxies, failed_proxies, current_index>>]_vars

\* a full listing installed over a pool that was in use
C17_Witness ==
  /\ call.op = "refresh" /\ call.ok
  /\ Len(valid_proxies) = MaxProxies
  /\ failed_proxies = {}
  /\ current_index > 0

\* ---- the proxy pool called from several threads ----
InCritical(th) == tpc[th] \in {"next", "advance", "mark", "stats", "refresh"}

InNext(th) == tlocal[th].op = "next" /\ tpc[th] # "idle"

\* t1 and t2 are both inside get_next_proxy, no other call has taken the lock
\* since the first of them was entered, and the pool has kept its list and two
\* usable endpoints
TwoAlone(t1, t2) ==
  /\ InNext(t1) /\ InNext(t2)
  /\ steady[t1] /\ steady[t2]
  /\ tlocal[t1].others <= 1 /\ tlocal[t2].others <= 1

\* the step by which thread th leaves the block has the effect, and the result,
\* of the whole call made at once on the pool as it was when th took the lock
AtomicEffect(th) ==
  (lock = th /\ lock' = 0) =>
    CASE tlocal[th].op = "next" ->
           LET r == Rotate(snap.valid, snap.failed, snap.index) IN
           /\ tres'[th] = [kind |-> r.kind, proxy |-> r.proxy, pos |-> r.pos]
           /\ valid_proxies' = snap.valid
           /\ failed_proxies' = r.failed
           /\ current_index' = r.index
      [] tlocal[th].op = "mark" ->
           /\ valid_proxies' = snap.valid
           /\ failed_proxies' = snap.failed \cup {tlocal[th].arg}
           /\ current_index' = snap.index
      [] tlocal[th].op = "stats" ->
           /\ tres'[th] = [kind |-> "stats", proxy |-> Len(snap.valid), pos |-> snap.index]
           /\ valid_proxies' = snap.valid
           /\ failed_proxies' = snap.failed
           /\ current_index' = snap.index
      [] OTHER ->
           /\ failed_proxies' = {}
           /\ current_index' = snap.index

\* C18: calls made on the pool by several threads are atomic: at most one thread
\* is inside a "with self.lock:" block, and every call has the effect and the
\* result of the whole call made at once, so the calls are as if made one after
\* the other; and two get_next_proxy calls in progress at the same time, with no
\* third call on the pool meanwhile and the pool keeping two endpoints not marked
\* failed, read no cursor position in common.
C18_PoolCallsAtomic ==
  /\ [](\A th \in Threads : InCritical(th) => lock = th)
  /\ [][\A th \in Threads : AtomicEffect(th)]_vars
  /\ [](\A t1, t2 \in Callers :
          (t1 # t2 /\ TwoAlone(t1, t2)) => seen[t1] \cap seen[t2] = {})

\* ---- the duplicate lookup ----
VideoExtensions == {".mp4", ".webm", ".mkv", ".avi", ".mov"}
AudioExtensions == {".mp3", ".m4a", ".webm", ".ogg"}
Expected(audio_only) == IF audio_only THEN AudioExtensions ELSE VideoExtensions

HasId(name, id) == \E i \in DOMAIN name : name[i] = id
HasExpectedExt(name, audio_only) ==
  \E e \in Expected(audio_only) : splitext(name).ext = <<e>>

C20_SimilarityExample ==
  [][\A title \in {RandomVid, Unrelated} :
       ( /\ check_existing_file(title, NoId, FALSE)
         /\ dir_exists
         /\ RandomWebm \in Range(directory)
         /\ \A name \in Range(directory) : ~HasId(name, NoId) )
       => /\ title = RandomVid => found' = RandomWebm
          /\ title = Unrelated => found' = NoFile]_vars

\* C20 amended: with no file carrying the id, the video lookup for the title
\* "Some Random Video" (all three words in common, 1.0 > 0.7) returns
\* "Some Random Video.webm", or the other file of the directory with these three
\* words when there is one; the lookups for "Some Random Vid" (two words of four
\* in common, 0.5) and for "Completely Unrelated" return no match.
C20_SimilarityAmended ==
  [][\A title \in {RandomVideo, RandomVid, Unrelated} :
       ( /\ check_existing_file(title, NoId, FALSE)
         /\ dir_exists
         /\ RandomWebm \in Range(directory)
         /\ \A name \in Range(directory) : ~HasId(name, NoId) )
       => /\ title = RandomVideo
               => /\ found' \in {RandomWebm, LowerRandomMov}
                  /\ LowerRandomMov \notin Range(directory) => found' = RandomWebm
          /\ title \in {RandomVid, Unrelated} => found' = NoFile]_vars

C20_Witness ==
  /\ query.asked /\ query.title = RandomVideo /\ query.video_id_hash = NoId
  /\ ~query.audio_only
  /\ found = RandomWebm
  /\ Len(directory) >= 2

\* the forms of a reference to video id that the claim names
Forms(id) == {WatchUrl(id), WatchExtraUrl(id), ShortUrl(id)}

\* C21: the content identifier is a function of the source reference: the same
\* reference always gets the same identifier, two references that carry the same
\* video id as watch?v=ID, watch?v=ID&extra or youtu.be/ID get the same identifier,
\* and references that carry different video ids get different identifiers.
C21_ContentIdFunction ==
  \A i, j \in DOMAIN id_calls :
     /\ id_calls[i].url = id_calls[j].url
           => id_calls[i].video_id_hash = id_calls[j].video_id_hash
     /\ \A id \in VideoIds : (id_calls[i].url \in Forms(id) /\ id_calls[j].url \in Forms(id))
           => id_calls[i].video_id_hash = id_calls[j].video_id_hash
     /\ \A id1, id2 \in VideoIds :
           (id1 # id2 /\ id_calls[i].url \in Forms(id1) /\ id_calls[j].url \in Forms(id2))
              => id_calls[i].video_id_hash # id_calls[j].video_id_hash

\* the same video id hashed from a watch url with extra parameters and from a short url
C21_Witness ==
  /\ Len(id_calls) = 2
  /\ id_calls[1].url = WatchExtraUrl(Rick)
  /\ id_calls[2].url = ShortUrl(Rick)
  /\ id_calls[1].video_id_hash = id_calls[2].video_id_hash

\* C22: the name of every file written for an entry contains the entry's
\* video_id_hash, so that the lookup by identifier for the same entry finds the file,
\* and entries with different identifiers never write the same name.
C22_OutputNameHasContentId ==
  /\ \A k \in DOMAIN entries : entries[k].filename # NoFile =>
        /\ HasId(entries[k].filename, entries[k].video_id_hash)
        /\ IdMatch(directory, sanitize_filename(entries[k].title),
                   entries[k].video_id_hash, possible_extensions(FALSE)) # NoFile
  /\ \A k, l \in DOMAIN entries :
        (/\ entries[k].filename # NoFile
         /\ entries[l].filename # NoFile
         /\ entries[k].video_id_hash # entries[l].video_id_hash)
           => entries[k].filename # entries[l].filename

\* the number of items a message shows in one of the statuses S
ShownCount(msg, S) == Cardinality({i \in DOMAIN msg.videos : msg.videos[i] \in S})

\* the counters of the task part of a message against its item part
Consistent(msg) ==
  /\ msg.task.success_count = ShownCount(msg, {"completed", "skipped"})
  /\ msg.task.progress = ShownCount(msg, {"completed", "skipped"})
  /\ msg.task.failure_count = ShownCount(msg, {"failed"})
  /\ msg.task.active_downloads = ShownCount(msg, {"downloading"})

C24_CountersMatchItems ==
  \A t \in Tasks : Status(t) # "absent" =>
     /\ tasks_storage[t].success_count = CountStatus(t, {"completed", "skipped"})
     /\ tasks_storage[t].progress = CountStatus(t, {"completed", "skipped"})
     /\ tasks_storage[t].failure_count = CountStatus(t, {"failed"})
     /\ tasks_storage[t].active_downloads = CountStatus(t, {"downloading"})

\* a send to the socket registered for t cannot succeed
Undeliverable(t) == active_connections[t] # 0 /\ conn[active_connections[t]] # "open"

\* the registration of t is dropped; no socket and no received message changes
Unsubscribed(t) ==
  /\ active_connections' = [active_connections EXCEPT ![t] = 0]
  /\ UNCHANGED <<conn, sub_task, received>>

\* and nothing of the items or workers moves
OnlyUnsubscribed(t) == Unsubscribed(t) /\ UNCHANGED <<video_downloads, workVars>>

Rank(status) ==
  CASE status = "absent" -> 0 [] status = "initializing" -> 1 [] status = "fetching" -> 2
    [] status = "downloading" -> 3 [] OTHER -> 4

\* the number of items a message shows in a terminal status
TerminalShown(msg) ==
  IF msg.type = "progress_update" THEN ShownCount(msg, TerminalItem)
  ELSE msg.task.success_count + msg.task.failure_count

\* C30: from one message a subscriber receives to the next, the number of items
\* shown in a terminal status does not decrease and the task status does not move
\* back (a terminal status stays what it is).
C30_DeliveriesInOrder ==
  [][\A s \in Subs : (Delivered(s) /\ received'[s] # received[s]) =>
        /\ TerminalShown(received'[s]) >= TerminalShown(received[s])
        /\ Rank(received'[s].task.status) >= Rank(received[s].task.status)
        /\ received[s].task.status \in TerminalTask
              => received'[s].task.status = received[s].task.status]_vars

\* a subscriber registered before the wave has received the terminal status with
\* the items counted
C30_Witness ==
  \E t \in Tasks, s \in Subs :
     /\ active_connections[t] = s
     /\ received[s].task.status \in TerminalTask
     /\ TerminalShown(received[s]) >= 1
     /\ pending[t] >= 1

\* s has registered for t and its socket is open
Subscribed(s, t) == sub_task[s] = t /\ conn[s] = "open"

\* C28: a publish reaches every subscriber that has registered for the task and is
\* connected: each of them receives the status update of a step of
\* process_download_enhanced, and the snapshot of a progress publish.
C28_PublishReachesAll ==
  [][\A t \in Tasks, s \in Subs : Subscribed(s, t) =>
        /\ (\/ process_fetching(t)
            \/ process_no_videos(t)
            \/ \E n \in 1..MaxItems : process_register(t, n)
            \/ \E ok \in BOOLEAN : process_finish(t, ok))
              => received'[s] = [type |-> "status_update", task |-> tasks_storage'[t],
                                 videos |-> <<>>]
        /\ send_video_progress_update(t)
              => (received'[s].type = "progress_update"
                     /\ received'[s].task = tasks_storage'[t])]_vars

\* C29: a subscriber that has registered for a task and stays connected eventually
\* has received a message that shows the task completed or failed.
C29_TerminalStatusArrives ==
  \A t \in Tasks, s \in Subs :
     Subscribed(s, t) ~> (conn[s] # "open" \/ received[s].task.status \in TerminalTask)

\* C25: a thread reads or writes tasks_storage, video_downloads or one of their
\* records only while it holds storage_lock.
C25_AccessUnderLock ==
  \A th \in LockThreads : Instr(th).op = "touch" => storage_lock = th

\* C26: a thread that holds storage_lock makes no call to the file system or the
\* network, and does not wait for a lock.
C26_NoIoUnderLock ==
  \A th \in LockThreads : storage_lock = th => Instr(th).op \notin {"io", "acquire"}

\* a name of the directory qualifies for a title: its extension is an expected
\* one and more than seven tenths of the words of the two are common to both
Qualifies(name, title, audio_only) ==
  LET title_words == Words(sanitize_filename(title))
      name_words == Words(splitext(name).root)
  IN /\ HasExpectedExt(name, audio_only)
     /\ title_words # {}
     /\ 10 * Cardinality(title_words \cap name_words)
           > 7 * Cardinality(title_words \cup name_words)

\* C34: when no name of the directory carries the identifier, a lookup returns
\* the first name in directory order whose extension is expected and whose word
\* set has a Jaccard similarity above 0.7 with the title's, and no file when
\* there is none: a similarity of exactly 0.7 and a title without words match
\* nothing.
C34_JaccardThreshold ==
  [][\A title \in Titles, id \in Ids, audio_only \in BOOLEAN :
       ( /\ check_existing_file(title, id, audio_only)
         /\ dir_exists
         /\ \A name \in Range(directory) : ~HasId(name, id) )
       => LET near == SelectSeq(directory, LAMBDA name : Qualifies(name, title, audio_only))
          IN found' = IF near = <<>> THEN NoFile ELSE Head(near)]_vars

\* seven of the ten words of the title are the words of a file: 0.7, no match
C34_Witness ==
  /\ query.asked /\ query.title = TenWords /\ ~query.audio_only
  /\ query.video_id_hash = NoId
  /\ dir_exists /\ SevenMp4 \in Range(directory)
  /\ found = NoFile

\* C31: a progress callback raised by the fetch of an item changes the fields of
\* that item only, never those of another item of the wave.
C31_CallbackUpdatesOwnItem ==
  [][\A i \in HookItems, d \in Callbacks :
       progress_hook(i, d) => \A j \in HookItems \ {i} : hooked'[j] = hooked[j]]_vars

\* C35: the progress of an item stays between 0 and 100 and, once a total is
\* recorded, the downloaded bytes do not exceed it.
C35_ProgressInRange ==
  \A i \in HookItems :
     /\ hooked[i].progress \in 0..100
     /\ hooked[i].file_size # 0 => hooked[i].downloaded_size <= hooked[i].file_size

\* C32: a status query for a task id that is not in the registry answers 404,
\* and one for a registered task id answers with the record of the task and its
\* items; either way the registry lock is free afterwards and no task record and
\* no item record has changed.
C32_StatusQueryReadsOnly ==
  [][\A t \in Tasks : get_status(t) =>
        /\ tasks_storage' = tasks_storage
        /\ video_downloads' = video_downloads
        /\ storage_lock' = 0
        /\ ppc[t] = "none" => response'.status_code = 404
        /\ ppc[t] # "none" =>
              /\ response'.status_code = 200
              /\ response'.status = tasks_storage[t]
              /\ response'.video_downloads = video_downloads[t]]_vars

\* an unknown id has been asked for while the other task has its item
C32_Witness ==
  /\ response.status_code = 404
  /\ \E t \in Tasks : Len(video_downloads[t]) > 0

\* C33: an item in status completed or skipped has a file name, and an item whose
\* fetch returned without a file name that could be resolved is failed with an
\* error message.
C33_CompletedHasFilename ==
  [][\A t \in Tasks, i \in 1..MaxItems :
       /\ (i \in DOMAIN video_downloads'[t]
              /\ video_downloads'[t][i].status \in {"completed", "skipped"})
            => video_downloads'[t][i].filename # ""
       /\ worker_file_not_found(t, i)
            => /\ video_downloads'[t][i].status = "failed"
               /\ video_downloads'[t][i].error # ""]_vars

\* one item has ended without a file name and another with one
C33_Witness ==
  \E t \in Tasks : \E i, j \in DOMAIN video_downloads[t] :
     /\ video_downloads[t][i].status = "failed"
     /\ video_downloads[t][i].error = "Downloaded but file not found"
     /\ video_downloads[t][j].status = "completed"
     /\ video_downloads[t][j].filename # ""

\* C36: the publishes that the workers of a wave request are delivered while the
\* wave runs: when the wave of a task ends, no publish of the task is still
\* waiting for the event loop.
C36_PublishesRunDuringWave ==
  [][\A t \in Tasks, ok \in BOOLEAN : process_finish(t, ok) => pending[t] = 0]_vars

\* C37: no thread asks for storage_lock while it holds it.
C37_NoNestedAcquire ==
  \A th \in LockThreads : Instr(th).op = "acquire" => storage_lock # th

\* C38: the registration of a subscriber for a task is deleted only when a send
\* to that very subscriber has failed; the failure of a send to an earlier
\* subscriber does not delete the registration of a later one.
C38_CleanupRemovesOwnRegistration ==
  [][\A t \in Tasks, s \in Subs :
       (active_connections[t] = s /\ active_connections'[t] = 0)
          => (inflight[t] = s /\ conn[s] # "open")]_vars

\* C39: once a task is completed or failed, its task record does not change any
\* more.
C39_TerminalRecordFrozen ==
  [][\A t \in Tasks :
       tasks_storage[t].status \in TerminalTask => tasks_storage'[t] = tasks_storage[t]]_vars

\* C40: every submitted task eventually is completed or failed with every one of
\* its items skipped, completed or failed.
C40_TasksTerminate ==
  \A t \in Tasks :
     (ppc[t] # "none") ~>
        /\ tasks_storage[t].status \in TerminalTask
        /\ \A i \in DOMAIN video_downloads[t] : video_downloads[t][i].status \in TerminalItem

====
